---------------------------- MODULE Spec2Model ----------------------------
(***************************************************************************)
(* psycopg3: cursors sharing one connection.                               *)
(*                                                                         *)
(* The cursor (src/psycopg3/cursor.py) is modelled statement by statement. *)
(* The connection (lock, close, commit, rollback), the PQ generator and    *)
(* the server's transaction status are not part of the available sources:  *)
(* they follow sections 4.2, 4.3 and 4.9 of the specification.             *)
(*                                                                         *)
(* execute() suspends at two places only: the acquisition of the           *)
(* connection's lock and the wait on the generator.  It is therefore two   *)
(* steps: ExecuteSend (lock acquired, _execute_send run) and ExecuteReturn *)
(* (the wait returns, _execute_results runs, the lock is released), or     *)
(* ExecuteWaitError (the wait raises, the lock is released).  A cursor is  *)
(* driven by one thread or task at a time: fetchone() and nextset() are    *)
(* called on a cursor that is not inside execute().                        *)
(***************************************************************************)
EXTENDS Integers, Sequences, FiniteSets, TLC

\* ------------------------------------------------------------------ bounds

\* The longest list of results the generator returns for one query.
MaxResults == 2
\* The most rows a TUPLES_OK result holds.
MaxRows == 2
\* fetchone() calls followed on one result set.
MaxFetch == 4
\* nextset() calls followed after one execute() (_iresult grows at each).
MaxNextset == 3

\* The longest query, in tokens, passed to execute().
MaxQueryLen == 3
\* The most parameters passed to execute().
MaxParams == 2

\* How far around each limit of a type's range the ints dumped are taken.
MaxDelta == 1

\* The longest text of a composite's field, and the most fields of a
\* composite.
MaxFieldLen == 1
MaxFields == 2

\* How many register() calls are followed.
MaxRegister == 2

\* How many load() calls on one loader instance are followed.
MaxLoads == 3

\* The cursors (threads or tasks) sharing the connection.
Cursors == {"c1", "c2"}

\* ------------------------------------------------------------ pq constants

\* ExecStatus members
TUPLES_OK == "TUPLES_OK"
COMMAND_OK == "COMMAND_OK"
EMPTY_QUERY == "EMPTY_QUERY"
FATAL_ERROR == "FATAL_ERROR"
COPY_IN == "COPY_IN"
COPY_OUT == "COPY_OUT"
COPY_BOTH == "COPY_BOTH"
BAD_RESPONSE == "BAD_RESPONSE"
NONFATAL_ERROR == "NONFATAL_ERROR"

ExecStatus ==
    {TUPLES_OK, COMMAND_OK, EMPTY_QUERY, FATAL_ERROR, COPY_IN, COPY_OUT,
     COPY_BOTH, BAD_RESPONSE, NONFATAL_ERROR}

\* The statuses _execute_results accepts.
OkStatus == {TUPLES_OK, COMMAND_OK, EMPTY_QUERY}

\* The member names in ascending order, as Python's sorted() orders them.
StatusNames ==
    <<BAD_RESPONSE, COMMAND_OK, COPY_BOTH, COPY_IN, COPY_OUT, EMPTY_QUERY,
      FATAL_ERROR, NONFATAL_ERROR, TUPLES_OK>>

\* TransactionStatus members (INERROR is the specification's
\* FailedTransaction; UNKNOWN is what a closed connection reports).
IDLE == "IDLE"
INTRANS == "INTRANS"
INERROR == "INERROR"
UNKNOWN == "UNKNOWN"

\* ConnStatus members
OK == "OK"
BAD == "BAD"

\* SQLSTATE values a FATAL_ERROR result may carry ("XX999": a code the
\* mapping does not know).
SqlStates == {"23505", "40001", "XX999"}

\* exceptions.class_for_state: the class mapped from a SQLSTATE.
class_for_state(sqlstate) ==
    CASE sqlstate = "23505" -> "UniqueViolation"
      [] sqlstate = "40001" -> "SerializationFailure"
      [] OTHER -> "DatabaseError"

\* The classes class_for_state can return: the server-side DatabaseErrors.
DatabaseErrors == {class_for_state(s) : s \in SqlStates}

\* ------------------------------------------------------------------- state

VARIABLES
    lock,        \* conn.lock: its holder (a cursor, "conn") or Free
    status,      \* conn.status: OK or BAD (conn.closed is status = BAD)
    tstatus,     \* conn.pgconn.transaction_status, as of the last ReadyForQuery
    srvtx,       \* the server's transaction state while a query runs
    foo,         \* the tests' table foo: is its row visible, is it committed
    wire,        \* the last message sent to the server
    cpc,         \* the connection-level caller: "idle", "commit", "rollback"
    connout,     \* the last close/commit/rollback call and how it ended
    pc,          \* per cursor: "idle" or "sent" (between send and wait's return)
    pending,     \* per cursor: execute()'s results: what its generator has
                 \* collected, then the list it returned
    _results,    \* per cursor: BaseCursor._results
    _result,     \* per cursor: BaseCursor._result
    _pos,        \* per cursor: BaseCursor._pos
    _iresult,    \* per cursor: BaseCursor._iresult
    outcome,     \* per cursor: how the last execute() ended
    rv,          \* per cursor: the last fetchone()/nextset() and its return value
    nfetch,      \* per cursor: fetchone() calls since a result became current
    nnext,       \* per cursor: nextset() calls since the last execute()
    binary,      \* per cursor: BaseCursor.binary
    args,        \* the (query, vars) of the last execute() on the connection
    message,     \* the message that execute() sent (none: it sent nothing)
    obj,         \* the Python value handed to a dumper
    dumped,      \* what the dumper returned (or raised)
    loaded,      \* what the loader returned for the dumped data
    dumpers,     \* per scope: the dumpers map, (class, format) -> dumper
    loaders,     \* per scope: the loaders map, (oid, format) -> loader
    arrays,      \* per scope: the array registrations, array oid -> element
    nregister,   \* the register() calls made
    instance     \* a loader instance and the row types of its Transformer

vars ==
    <<lock, status, tstatus, srvtx, foo, wire, cpc, connout, pc, pending,
      _results, _result, _pos, _iresult, outcome, rv, nfetch, nnext,
      binary, args, message, obj, dumped, loaded, dumpers, loaders, arrays,
      nregister, instance>>

connvars == <<lock, status, tstatus, srvtx, foo, wire, cpc, connout>>
cursorvars == <<_results, _result, _pos, _iresult>>
callvars == <<rv, nfetch, nnext>>
sendvars == <<args, message>>
adaptvars == <<obj, dumped, loaded>>
registryvars == <<dumpers, loaders, arrays, nregister>>
\* What the operations of the connection and of its cursors leave alone.
outsidevars == <<binary, adaptvars, registryvars, instance>>
\* The connection and its cursors, which the adapters leave alone.
facadevars ==
    <<connvars, cursorvars, callvars, sendvars, pc, pending, outcome, binary>>

Free == "free"
ConnCaller == "conn"

\* Python's None where a PGresult is expected.
None == [id |-> 0, status |-> "None", ntuples |-> 0, sqlstate |-> ""]

\* A PGresult: id is its place in the order the server produced the
\* results of one query (the identity of the object).
PGresult(i, st, n, ss) == [id |-> i, status |-> st, ntuples |-> n, sqlstate |-> ss]

\* The (status, ntuples, sqlstate) combinations of a result.
ResultShapes ==
    {<<TUPLES_OK, n, "">> : n \in 0..MaxRows}
    \cup {<<st, 0, "">> : st \in ExecStatus \ {TUPLES_OK, FATAL_ERROR}}
    \cup {<<FATAL_ERROR, 0, ss>> : ss \in SqlStates}

NoOutcome == [exc |-> "unset", at |-> "", msg |-> <<>>]
Running == [exc |-> "running", at |-> "", msg |-> <<>>]
NoRv == [op |-> "none", some |-> FALSE, id |-> 0, row |-> 0]

\* The scopes of the adapters maps: context None, a connection, a cursor.
Scopes == {"global", "connection", "cursor"}

\* ------------------------------------------------- protocol state machine

\* What a COMMAND_OK result may have run, as far as the transaction goes.
Commands == {"begin", "commit", "rollback", "insert", "other"}

\* The server's transaction state after it has produced a result of status
\* st (for COMMAND_OK, of command cmd): BEGIN opens a transaction, COMMIT
\* and ROLLBACK end one, an ErrorResponse fails an open one.
TransAfter(tx, st, cmd) ==
    CASE st = FATAL_ERROR /\ tx = INTRANS -> INERROR
      [] st = COMMAND_OK /\ cmd = "begin" /\ tx = IDLE -> INTRANS
      [] st = COMMAND_OK /\ cmd \in {"commit", "rollback"} -> IDLE
      [] OTHER -> tx

\* Table foo after the same: an insert in a transaction is visible to the
\* session; COMMIT of an open transaction makes it durable; ROLLBACK, and
\* COMMIT of a failed transaction, discard what is not.
DataAfter(tx, st, cmd, d) ==
    CASE st = COMMAND_OK /\ cmd = "insert" -> [d EXCEPT !.visible = TRUE]
      [] st = COMMAND_OK /\ cmd = "commit" /\ tx = INTRANS ->
            [d EXCEPT !.committed = d.visible]
      [] st = COMMAND_OK /\ cmd \in {"commit", "rollback"} /\ tx # INTRANS ->
            [d EXCEPT !.visible = d.committed]
      [] st = COMMAND_OK /\ cmd = "rollback" -> [d EXCEPT !.visible = d.committed]
      [] OTHER -> d

\* Whether the server, in transaction state tx, can produce a result of
\* status st: in a failed transaction every command but the one ending it
\* is rejected with an ErrorResponse.  Inserts are followed inside an
\* explicit transaction only, as in the tests.
ServerCan(tx, st, cmd) ==
    /\ tx = INERROR /\ st \in OkStatus =>
            st = COMMAND_OK /\ cmd \in {"commit", "rollback"}
    /\ cmd = "insert" => tx = INTRANS

\* ------------------------------------------------------------ Python values

\* pq.Format members
TEXT == "TEXT"
BINARY == "BINARY"

\* A Python int is not bounded: it is kept as a sign and a magnitude, the
\* magnitude a sequence of base-65536 digits, the most significant first,
\* without leading zeros (zero: the empty sequence).
Zero == [neg |-> FALSE, mag |-> <<>>]

\* The values handed to the dumpers and returned by the loaders: a type
\* name and the value in the field of that type.
PyNone == [type |-> "NoneType", int |-> Zero, bool |-> FALSE, text |-> <<>>, items |-> <<>>]
PyInt(v) == [type |-> "int", int |-> v, bool |-> FALSE, text |-> <<>>, items |-> <<>>]
PyBool(b) == [type |-> "bool", int |-> Zero, bool |-> b, text |-> <<>>, items |-> <<>>]
PyStr(s) == [type |-> "str", int |-> Zero, bool |-> FALSE, text |-> s, items |-> <<>>]
PyDecimal(v) == [type |-> "Decimal", int |-> v, bool |-> FALSE, text |-> <<>>, items |-> <<>>]
PyTuple(items) == [type |-> "tuple", int |-> Zero, bool |-> FALSE, text |-> <<>>, items |-> items]

\* Python's == on these values: numbers compare by value, whatever their type.
PyEq(a, b) ==
    IF a.type \in {"int", "Decimal"} /\ b.type \in {"int", "Decimal"}
    THEN a.int = b.int
    ELSE a = b

RECURSIVE StripZeros(_)
\* A magnitude without its leading zero digits.
StripZeros(m) ==
    IF m = <<>> THEN <<>>
    ELSE IF m[1] = 0 THEN StripZeros(Tail(m))
    ELSE m

RECURSIVE CmpDigits(_, _, _)
\* Two magnitudes of the same length compared from digit i on: -1, 0 or 1.
CmpDigits(a, b, i) ==
    IF i > Len(a) THEN 0
    ELSE IF a[i] < b[i] THEN -1
    ELSE IF a[i] > b[i] THEN 1
    ELSE CmpDigits(a, b, i + 1)

\* Two magnitudes compared: -1, 0 or 1.
CmpMag(a, b) ==
    IF Len(a) < Len(b) THEN -1
    ELSE IF Len(a) > Len(b) THEN 1
    ELSE CmpDigits(a, b, 1)

\* Python's a <= b on ints.
IntLe(a, b) ==
    IF a.neg /\ ~b.neg THEN TRUE
    ELSE IF ~a.neg /\ b.neg THEN a.mag = <<>> /\ b.mag = <<>>
    ELSE IF a.neg THEN CmpMag(a.mag, b.mag) >= 0
    ELSE CmpMag(a.mag, b.mag) <= 0

RECURSIVE MulAddAt(_, _, _, _)
\* The digits 1..i of m, times k, plus carry.
MulAddAt(m, k, carry, i) ==
    IF i = 0 THEN (IF carry = 0 THEN <<>> ELSE <<carry>>)
    ELSE LET cur == m[i] * k + carry
         IN  MulAddAt(m, k, cur \div 65536, i - 1) \o <<cur % 65536>>

\* The magnitude m * k + a, for small k and a.
MulAdd(m, k, a) == StripZeros(MulAddAt(m, k, a, Len(m)))

RECURSIVE DivModAt(_, _, _, _)
\* Long division of the digits i.. of m by d, r being carried in: the
\* quotient's digits and the remainder.
DivModAt(m, d, i, r) ==
    IF i > Len(m) THEN <<<<>>, r>>
    ELSE LET cur == r * 65536 + m[i]
             rest == DivModAt(m, d, i + 1, cur % d)
         IN  <<<<cur \div d>> \o rest[1], rest[2]>>

\* Quotient and remainder of the magnitude m by a small d.
DivMod(m, d) ==
    LET qr == DivModAt(m, d, 1, 0) IN <<StripZeros(qr[1]), qr[2]>>

RECURSIVE Digits(_)
\* The decimal digits of a magnitude, as ASCII codes.
Digits(m) ==
    IF m = <<>> THEN <<>>
    ELSE LET qr == DivMod(m, 10) IN Digits(qr[1]) \o <<48 + qr[2]>>

\* _encode(str(obj))[0] for an int: its decimal form in ASCII ("-": 45).
str(v) ==
    IF v.mag = <<>> THEN <<48>>
    ELSE (IF v.neg THEN <<45>> ELSE <<>>) \o Digits(v.mag)

RECURSIVE ParseDigits(_, _)
\* The magnitude written by the first i decimal digits of s.
ParseDigits(s, i) ==
    IF i = 0 THEN <<>>
    ELSE MulAdd(ParseDigits(s, i - 1), 10, s[i] - 48)

\* Whether s is an optional sign followed by one decimal digit or more.
IsDecimalText(s) ==
    LET d == IF s # <<>> /\ s[1] = 45 THEN Tail(s) ELSE s
    IN  d # <<>> /\ \A i \in DOMAIN d : d[i] \in 48..57

\* int(text) and Decimal(text) on an integer's decimal form: the value.
ParseInt(s) ==
    IF s[1] = 45
    THEN LET m == ParseDigits(Tail(s), Len(s) - 1)
         IN  [neg |-> m # <<>>, mag |-> m]
    ELSE [neg |-> FALSE, mag |-> ParseDigits(s, Len(s))]

\* ------------------------------------------------------------ struct.Struct

\* The sizes, in bytes, of the formats "!h", "!i", "!q" (signed) and "!I"
\* (unsigned), all big-endian.
_int2_struct == 2
_int4_struct == 4
_int8_struct == 8
_oid_struct == 4

\* The magnitude 2^(8 * size - 1).
HalfRange(size) == [i \in 1..(size \div 2) |-> IF i = 1 THEN 32768 ELSE 0]

\* Whether the int v fits the signed format of that size.
Fits(v, size) ==
    IF v.neg THEN CmpMag(v.mag, HalfRange(size)) <= 0
    ELSE CmpMag(v.mag, HalfRange(size)) < 0

\* The digits m on n digits: zeros in front, or the last n digits.
Pad(m, n) ==
    [i \in 1..n |-> IF i + Len(m) - n >= 1 THEN m[i + Len(m) - n] ELSE 0]

\* Two's complement, on n digits, of the magnitude m.
TwosComplement(m, n) ==
    LET inv == [i \in 1..n |-> 65535 - Pad(m, n)[i]]
    IN  Pad(MulAddAt(inv, 1, 1, n), n)

\* The bytes of a sequence of 16-bit digits, big-endian.
Bytes(m) ==
    [i \in 1..(2 * Len(m)) |->
        IF i % 2 = 1 THEN m[(i + 1) \div 2] \div 256 ELSE m[i \div 2] % 256]

\* The 16-bit digits of an even number of bytes, big-endian.
Words(data) ==
    [i \in 1..(Len(data) \div 2) |-> data[2 * i - 1] * 256 + data[2 * i]]

\* Struct.pack of a signed format: the bytes, or struct.error when the
\* value is out of the format's range.
pack(size, v) ==
    IF ~Fits(v, size)
    THEN [exc |-> "struct.error", data |-> <<>>]
    ELSE [exc |-> "none",
          data |-> Bytes(IF v.neg THEN TwosComplement(v.mag, size \div 2)
                         ELSE Pad(v.mag, size \div 2))]

\* Struct.unpack of a signed format: the int, or struct.error when the
\* buffer has not the format's size.
unpack(size, data) ==
    IF Len(data) # size
    THEN [exc |-> "struct.error", int |-> Zero]
    ELSE LET w == Words(data)
         IN  [exc |-> "none",
              int |-> IF w[1] >= 32768
                      THEN [neg |-> TRUE,
                            mag |-> StripZeros(TwosComplement(w, size \div 2))]
                      ELSE [neg |-> FALSE, mag |-> StripZeros(w)]]

\* Struct.unpack of an unsigned format.
unpack_unsigned(size, data) ==
    IF Len(data) # size
    THEN [exc |-> "struct.error", int |-> Zero]
    ELSE [exc |-> "none", int |-> [neg |-> FALSE, mag |-> StripZeros(Words(data))]]

\* ---------------------------------------------------- types/numeric.py

\* The oids of the built-in types (oids.builtins).
INT2_OID == 21
INT4_OID == 23
INT8_OID == 20
OID_OID == 26
NUMERIC_OID == 1700
BOOL_OID == 16
TEXT_OID == 25
RECORD_OID == 2249

\* What a dumper returns: the data and the oid, or the exception it raises.
Dumped(data, oid) == [exc |-> "none", data |-> data, oid |-> oid]
NotDumped == [exc |-> "unset", data |-> <<>>, oid |-> 0, format |-> TEXT]
NotLoaded == [exc |-> "unset", value |-> PyNone]
DumpRaises(exc) == [exc |-> exc, data |-> <<>>, oid |-> 0]

\* What a loader returns: the value, or the exception it raises.
Loaded(value) == [exc |-> "none", value |-> value]
LoadRaises(exc) == [exc |-> exc, value |-> PyNone]

\* numeric.dump_int
dump_int(v) == Dumped(str(v), NUMERIC_OID)

\* Faulty variant: the ranges are open at their lower ends.
dump_binary_int_openRange(v) ==
    IF ~IntLe(v, [neg |-> TRUE, mag |-> <<32768>>])
            /\ IntLe(v, [neg |-> FALSE, mag |-> <<32767>>])
    THEN LET p == pack(_int2_struct, v)
         IN  IF p.exc = "none" THEN Dumped(p.data, INT2_OID) ELSE DumpRaises(p.exc)
    ELSE IF ~IntLe(v, [neg |-> TRUE, mag |-> <<32768, 0>>])
            /\ IntLe(v, [neg |-> FALSE, mag |-> <<32767, 65535>>])
    THEN LET p == pack(_int4_struct, v)
         IN  IF p.exc = "none" THEN Dumped(p.data, INT4_OID) ELSE DumpRaises(p.exc)
    ELSE LET p == pack(_int8_struct, v)
         IN  IF p.exc = "none" THEN Dumped(p.data, INT8_OID) ELSE DumpRaises(p.exc)

\* numeric.dump_binary_int (-0x8000: -32768, 0x7FFF: 32767, -0x80000000:
\* -(32768 * 65536), 0x7FFFFFFF: 32767 * 65536 + 65535).
dump_binary_int(v) ==
    IF IntLe([neg |-> TRUE, mag |-> <<32768>>], v)
            /\ IntLe(v, [neg |-> FALSE, mag |-> <<32767>>])
    THEN LET p == pack(_int2_struct, v)
         IN  IF p.exc = "none" THEN Dumped(p.data, INT2_OID) ELSE DumpRaises(p.exc)
    ELSE IF IntLe([neg |-> TRUE, mag |-> <<32768, 0>>], v)
            /\ IntLe(v, [neg |-> FALSE, mag |-> <<32767, 65535>>])
    THEN LET p == pack(_int4_struct, v)
         IN  IF p.exc = "none" THEN Dumped(p.data, INT4_OID) ELSE DumpRaises(p.exc)
    ELSE LET p == pack(_int8_struct, v)
         IN  IF p.exc = "none" THEN Dumped(p.data, INT8_OID) ELSE DumpRaises(p.exc)

\* numeric.dump_bool ("t": 116, "f": 102)
dump_bool(b) == Dumped(IF b THEN <<116>> ELSE <<102>>, BOOL_OID)

\* numeric.dump_binary_bool
dump_binary_bool(b) == Dumped(IF b THEN <<1>> ELSE <<0>>, BOOL_OID)

\* numeric.load_int
load_int(data) ==
    IF IsDecimalText(data) THEN Loaded(PyInt(ParseInt(data)))
    ELSE LoadRaises("ValueError")

\* Faulty variant: the int2 payload is read as unsigned.
load_binary_int2_unsigned(data) ==
    LET u == unpack_unsigned(_int2_struct, data)
    IN  IF u.exc = "none" THEN Loaded(PyInt(u.int)) ELSE LoadRaises(u.exc)

\* numeric.load_binary_int2
load_binary_int2(data) ==
    LET u == unpack(_int2_struct, data)
    IN  IF u.exc = "none" THEN Loaded(PyInt(u.int)) ELSE LoadRaises(u.exc)

\* numeric.load_binary_int4
load_binary_int4(data) ==
    LET u == unpack(_int4_struct, data)
    IN  IF u.exc = "none" THEN Loaded(PyInt(u.int)) ELSE LoadRaises(u.exc)

\* numeric.load_binary_int8
load_binary_int8(data) ==
    LET u == unpack(_int8_struct, data)
    IN  IF u.exc = "none" THEN Loaded(PyInt(u.int)) ELSE LoadRaises(u.exc)

\* numeric.load_binary_oid
load_binary_oid(data) ==
    LET u == unpack_unsigned(_oid_struct, data)
    IN  IF u.exc = "none" THEN Loaded(PyInt(u.int)) ELSE LoadRaises(u.exc)

\* numeric.load_numeric, on the decimal form of an integer.
load_numeric(data) ==
    IF IsDecimalText(data) THEN Loaded(PyDecimal(ParseInt(data)))
    ELSE LoadRaises("InvalidOperation")

\* numeric.load_bool: _bool_loads[data]
load_bool(data) ==
    IF data = <<116>> THEN Loaded(PyBool(TRUE))
    ELSE IF data = <<102>> THEN Loaded(PyBool(FALSE))
    ELSE LoadRaises("KeyError")

\* numeric.load_binary_bool: _bool_binary_loads[data]
load_binary_bool(data) ==
    IF data = <<1>> THEN Loaded(PyBool(TRUE))
    ELSE IF data = <<0>> THEN Loaded(PyBool(FALSE))
    ELSE LoadRaises("KeyError")

\* The dumpers of numeric.py for ints and bools, by the value's type and
\* the format.
dump(value, format) ==
    CASE value.type = "int" /\ format = TEXT -> dump_int(value.int)
      [] value.type = "int" /\ format = BINARY -> dump_binary_int(value.int)
      [] value.type = "bool" /\ format = TEXT -> dump_bool(value.bool)
      [] value.type = "bool" /\ format = BINARY -> dump_binary_bool(value.bool)

\* The loaders numeric.py registers for ints, numerics and bools, by oid
\* and format (the Loader.text and Loader.binary decorators).
load(data, oid, format) ==
    CASE format = TEXT /\ oid \in {INT2_OID, INT4_OID, INT8_OID, OID_OID} -> load_int(data)
      [] format = TEXT /\ oid = NUMERIC_OID -> load_numeric(data)
      [] format = TEXT /\ oid = BOOL_OID -> load_bool(data)
      [] format = BINARY /\ oid = INT2_OID -> load_binary_int2(data)
      [] format = BINARY /\ oid = INT4_OID -> load_binary_int4(data)
      [] format = BINARY /\ oid = INT8_OID -> load_binary_int8(data)
      [] format = BINARY /\ oid = OID_OID -> load_binary_oid(data)
      [] format = BINARY /\ oid = BOOL_OID -> load_binary_bool(data)
      [] OTHER -> LoadRaises("NoLoader")

\* -------------------------------------------- types/composite.py: text

\* Faulty variant: the empty string is not quoted.
_re_needs_quotes_noEmpty(ad) ==
    \E i \in DOMAIN ad : ad[i] \in {34, 44, 92, 32} \cup (9..13)

\* _re_needs_quotes.search(ad) is not None: the empty string, or a string
\* with a double quote (34), a comma (44), a backslash (92) or a whitespace
\* character (\s: 9..13 and 32).
_re_needs_quotes(ad) ==
    \/ ad = <<>>
    \/ \E i \in DOMAIN ad : ad[i] \in {34, 44, 92, 32} \cup (9..13)

RECURSIVE _re_escape(_)
\* _re_escape.sub(br"\1\1", ad): every double quote doubled.
_re_escape(ad) ==
    IF ad = <<>> THEN <<>>
    ELSE (IF ad[1] = 34 THEN <<34, 34>> ELSE <<ad[1]>>) \o _re_escape(Tail(ad))

RECURSIVE Join(_)
\* b"".join(parts)
Join(parts) ==
    IF parts = <<>> THEN <<>> ELSE parts[1] \o Join(Tail(parts))

RECURSIVE TextParts(_)
\* The loop of TextTupleDumper.dump: the parts appended for the items, a
\* comma (44) after each.  An item is None, or a str, dumped as its encoded
\* text.
TextParts(items) ==
    IF items = <<>> THEN <<>>
    ELSE (IF items[1].type = "NoneType"
          THEN <<<<44>>>>
          ELSE LET ad == items[1].text
               IN  <<IF _re_needs_quotes(ad)
                     THEN <<34>> \o _re_escape(ad) \o <<34>>
                     ELSE ad,
                     <<44>>>>)
         \o TextParts(Tail(items))

\* TextTupleDumper.dump: "()" for the empty tuple; else "(" (40), the parts,
\* the last of them replaced by ")" (41).
TextTupleDumper_dump(items) ==
    IF items = <<>>
    THEN Dumped(<<40, 41>>, TEXT_OID)
    ELSE LET parts == <<<<40>>>> \o TextParts(items)
         IN  Dumped(Join([parts EXCEPT ![Len(parts)] = <<41>>]), TEXT_OID)

RECURSIVE QuotedEnd(_, _)
\* (?: [^"] | "")* from place q on, greedy: the place where it stops, a
\* double quote not followed by another, or the end of the data.
QuotedEnd(data, q) ==
    IF q > Len(data) THEN q
    ELSE IF data[q] # 34 THEN QuotedEnd(data, q + 1)
    ELSE IF q + 1 <= Len(data) /\ data[q + 1] = 34 THEN QuotedEnd(data, q + 2)
    ELSE q

RECURSIVE RunEnd(_, _)
\* [^",)]+ from place q on, greedy: the place where it stops.
RunEnd(data, q) ==
    IF q > Len(data) THEN q
    ELSE IF data[q] \in {34, 44, 41} THEN q
    ELSE RunEnd(data, q + 1)

NoMatch == [ok |-> FALSE, end |-> 0, group |-> 0, lo |-> 0, hi |-> 0]

\* _re_tokenize matched at place p: the group that took part, its span, and
\* the place after the match.  The alternatives are tried in order, each
\* with the optional "(" taken first and then left.
\*   \(? ([,)])                       group 1: an empty token, NULL
\*   \(? " ((?: [^"] | "")*) " [,)]   group 2: a quoted string
\*   \(? ([^",)]+) [,)]               group 3: an unquoted string
_re_tokenize(data, p) ==
    LET n == Len(data)
        paren == data[p] = 40
        s == IF paren THEN p + 1 ELSE p
        q2 == QuotedEnd(data, s + 1)
        q3 == RunEnd(data, s)
        q3b == RunEnd(data, p)
    IN  IF paren /\ s <= n /\ data[s] \in {44, 41}
        THEN [ok |-> TRUE, end |-> s + 1, group |-> 1, lo |-> s, hi |-> s]
        ELSE IF data[p] \in {44, 41}
        THEN [ok |-> TRUE, end |-> p + 1, group |-> 1, lo |-> p, hi |-> p]
        ELSE IF s <= n /\ data[s] = 34 /\ q2 + 1 <= n /\ data[q2 + 1] \in {44, 41}
        THEN [ok |-> TRUE, end |-> q2 + 2, group |-> 2, lo |-> s + 1, hi |-> q2 - 1]
        ELSE IF q3 > s /\ q3 <= n /\ data[q3] \in {44, 41}
        THEN [ok |-> TRUE, end |-> q3 + 1, group |-> 3, lo |-> s, hi |-> q3 - 1]
        ELSE IF paren /\ q3b <= n /\ data[q3b] \in {44, 41}
        THEN [ok |-> TRUE, end |-> q3b + 1, group |-> 3, lo |-> p, hi |-> q3b - 1]
        ELSE NoMatch

RECURSIVE _re_undouble(_)
\* _re_undouble.sub(br"\1", s): a doubled double quote or backslash made single.
_re_undouble(s) ==
    IF s = <<>> THEN <<>>
    ELSE IF Len(s) >= 2 /\ s[1] \in {34, 92} /\ s[2] = s[1]
    THEN <<s[1]>> \o _re_undouble(Tail(Tail(s)))
    ELSE <<s[1]>> \o _re_undouble(Tail(s))

RECURSIVE finditer(_, _)
\* The loop over _re_tokenize.finditer(data) in _parse_record, from place
\* p on: a match is looked for at p, then at the places after it; the next
\* one from the end of the match.  Group 1 yields None, group 2 its text
\* undoubled, group 3 its text.
finditer(data, p) ==
    IF p > Len(data) THEN <<>>
    ELSE LET m == _re_tokenize(data, p)
         IN  IF ~m.ok THEN finditer(data, p + 1)
             ELSE <<CASE m.group = 1 -> PyNone
                      [] m.group = 2 -> PyStr(_re_undouble(SubSeq(data, m.lo, m.hi)))
                      [] OTHER -> PyStr(SubSeq(data, m.lo, m.hi))>>
                  \o finditer(data, m.end)

\* RecordLoader._parse_record: no token for "()", else the tokens found.
_parse_record(data) ==
    IF data = <<40, 41>> THEN <<>> ELSE finditer(data, 1)

\* RecordLoader.load: the tuple of the tokens, each cast by the text loader
\* (the str of its bytes) unless None.
RecordLoader_load(data) == Loaded(PyTuple(_parse_record(data)))

\* ------------------------------------------ types/composite.py: binary

\* A small Python int, from a number between -65535 and 65535.
SmallInt(n) ==
    IF n = 0 THEN Zero
    ELSE IF n < 0 THEN [neg |-> TRUE, mag |-> <<-n>>]
    ELSE [neg |-> FALSE, mag |-> <<n>>]

\* The number of a Python int; an int of more than one digit counts as
\* 65536, which is beyond the length of any buffer followed here.
Num(v) ==
    LET m == IF v.mag = <<>> THEN 0
             ELSE IF Len(v.mag) = 1 THEN v.mag[1]
             ELSE 65536
    IN  IF v.neg THEN -m ELSE m

\* Struct.pack of an unsigned format.
pack_unsigned(size, v) ==
    IF v.neg \/ Len(v.mag) > size \div 2
    THEN [exc |-> "struct.error", data |-> <<>>]
    ELSE [exc |-> "none", data |-> Bytes(Pad(v.mag, size \div 2))]

\* _struct_len = struct.Struct("!i"): pack.
_struct_len_pack(n) == pack(4, SmallInt(n)).data

\* _struct_oidlen = struct.Struct("!Ii"): pack.
_struct_oidlen_pack(oid, length) ==
    pack_unsigned(4, SmallInt(oid)).data \o pack(4, SmallInt(length)).data

\* Struct.unpack_from, for "!i" and for "!Ii", at an offset counted from 0:
\* struct.error when the buffer ends before the format does.
_struct_len_unpack_from(data, offset) ==
    IF offset + 4 > Len(data)
    THEN [exc |-> "struct.error", nfields |-> 0]
    ELSE [exc |-> "none",
          nfields |-> Num(unpack(4, SubSeq(data, offset + 1, offset + 4)).int)]

_struct_oidlen_unpack_from(data, offset) ==
    IF offset + 8 > Len(data)
    THEN [exc |-> "struct.error", oid |-> 0, length |-> 0]
    ELSE [exc |-> "none",
          oid |-> Num(unpack_unsigned(4, SubSeq(data, offset + 1, offset + 4)).int),
          length |-> Num(unpack(4, SubSeq(data, offset + 5, offset + 8)).int)]

\* Transformer.dump(item, format) for an item that is not None: a str gives
\* its bytes, with the oid of text; an int or a bool goes to its dumper.
Transformer_dump(item, format) ==
    IF item.type = "str" THEN Dumped(item.text, TEXT_OID) ELSE dump(item, format)

\* The loader the Transformer finds for an oid and a format: a text is
\* loaded as the str of its bytes; the others by the loaders of numeric.py.
Transformer_load(data, oid, format) ==
    IF oid = TEXT_OID THEN Loaded(PyStr(data)) ELSE load(data, oid, format)

RECURSIVE BinaryParts(_)
\* The loop of BinaryTupleDumper.dump: for each item an oid and a length,
\* then the dumped bytes; for None the oid of text and the length -1.
BinaryParts(items) ==
    IF items = <<>> THEN <<>>
    ELSE (IF items[1].type = "NoneType"
          THEN _struct_oidlen_pack(TEXT_OID, -1)
          ELSE LET ad == Transformer_dump(items[1], BINARY)
               IN  _struct_oidlen_pack(ad.oid, Len(ad.data)) \o ad.data)
         \o BinaryParts(Tail(items))

\* BinaryTupleDumper.dump, of a subclass whose oid is the one given.
BinaryTupleDumper_dump(items, oid) ==
    Dumped(_struct_len_pack(Len(items)) \o BinaryParts(items), oid)

\* Faulty variant: the length is added whatever its sign.
Advance_anyLength(i, length) == i + 8 + length

\* i += (8 + length) if length > 0 else 8
Advance(i, length) == IF length > 0 THEN i + 8 + length ELSE i + 8

RECURSIVE Walk(_, _, _)
\* The loop of _walk_record, from offset i on, for n more fields: the
\* triples yielded, and struct.error if the data end before a header does.
Walk(data, i, n) ==
    IF n <= 0 THEN [exc |-> "none", triples |-> <<>>]
    ELSE LET h == _struct_oidlen_unpack_from(data, i)
         IN  IF h.exc # "none" THEN [exc |-> h.exc, triples |-> <<>>]
             ELSE LET rest == Walk(data, Advance(i, h.length), n - 1)
                  IN  [exc |-> rest.exc,
                       triples |-> <<[oid |-> h.oid, offset |-> i + 8,
                                      length |-> h.length]>> \o rest.triples]

\* BinaryRecordLoader._walk_record: the (oid, offset, length) of each field,
\* offsets counted from 0.
_walk_record(data) ==
    LET n == _struct_len_unpack_from(data, 0)
    IN  IF n.exc # "none" THEN [exc |-> n.exc, triples |-> <<>>]
        ELSE Walk(data, 4, n.nfields)

\* BinaryRecordLoader.load: the row types are set from the oids walked, then
\* each field is None for the length -1, else data[offset : offset + length]
\* loaded by the binary loader of its oid.
BinaryRecordLoader_load(data) ==
    LET w == _walk_record(data)
        field(t) == IF t.length = -1 THEN Loaded(PyNone)
                    ELSE Transformer_load(SubSeq(data, t.offset + 1, t.offset + t.length),
                                          t.oid, BINARY)
        fields == [k \in DOMAIN w.triples |-> field(w.triples[k])]
    IN  IF w.exc # "none" THEN LoadRaises(w.exc)
        ELSE IF \E k \in DOMAIN fields : fields[k].exc # "none"
        THEN LoadRaises(fields[CHOOSE k \in DOMAIN fields : fields[k].exc # "none"].exc)
        ELSE Loaded(PyTuple([k \in DOMAIN fields |-> fields[k].value]))

\* ---------------------------------------- types/composite.py: register

\* The composite types registered: point(x int4, y int4), which has an array
\* type, and line(a text), which has none (array_oid 0).
Infos ==
    {[name |-> "point", oid |-> 70001, array_oid |-> 70002,
      fields |-> <<[name |-> "x", type_oid |-> INT4_OID],
                   [name |-> "y", type_oid |-> INT4_OID]>>],
     [name |-> "line", oid |-> 70003, array_oid |-> 0,
      fields |-> <<[name |-> "a", type_oid |-> TEXT_OID]>>]}

\* The classes given as cls, the callables given as factory, and the
\* contexts; "None" stands for an argument left out.
Classes == {"Point", "Line"}
Factories == {"make"}
Contexts == {"None", "connection", "cursor"}
Formats == {TEXT, BINARY}

\* The keys of the maps: (class, format), (oid, format), array oid.
DumperKeys == Classes \X Formats
LoaderKeys == {info.oid : info \in Infos} \X Formats
ArrayKeys == {info.array_oid : info \in Infos} \ {0}

\* No entry at a key.
NoDumper == [base |-> "none", oid |-> 0, fields_oids |-> <<>>]
NoLoader == [base |-> "none", factory |-> "none", fields_types |-> <<>>]
NoArray == [base_oid |-> 0, name |-> ""]

\* The scope whose maps a registration with this context changes: the
\* global ones without a context, else the context's own.
Where(context) == IF context = "None" THEN "global" ELSE context

\* Dumper.register(src, dumper, context, format)
Dumper_register(map, src, dumper, context, format) ==
    [map EXCEPT ![Where(context)][<<src, format>>] = dumper]

\* Loader.register(oid, loader, context, format)
Loader_register(map, oid, loader, context, format) ==
    [map EXCEPT ![Where(context)][<<oid, format>>] = loader]

\* array.register(array_oid, base_oid, context, name)
array_register(map, array_oid, base_oid, context, name) ==
    [map EXCEPT ![Where(context)][array_oid] = [base_oid |-> base_oid, name |-> name]]

\* tuple(f.type_oid for f in info.fields)
FieldOids(info) == [i \in DOMAIN info.fields |-> info.fields[i].type_oid]

\* namedtuple(info.name, [f.name for f in info.fields])
namedtuple(info) == "namedtuple " \o info.name

\* The maps after register(info, context, cls, factory): the dumpers if cls
\* is given, the one generated from TextTupleDumper and then the one from
\* BinaryTupleDumper, both registered with format=Format.BINARY; the
\* loaders, text and binary, with the factory or a namedtuple; the array
\* if info.array_oid.
register(info, context, cls, factory) ==
    LET text_dumper == [base |-> "TextTupleDumper", oid |-> info.oid,
                        fields_oids |-> <<>>]
        binary_dumper == [base |-> "BinaryTupleDumper", oid |-> info.oid,
                          fields_oids |-> FieldOids(info)]
        d1 == Dumper_register(dumpers, cls, text_dumper, context, BINARY)
        d2 == Dumper_register(d1, cls, binary_dumper, context, BINARY)
        fac == IF factory = "None" THEN namedtuple(info) ELSE factory
        text_loader == [base |-> "CompositeLoader", factory |-> fac,
                        fields_types |-> FieldOids(info)]
        binary_loader == [base |-> "BinaryCompositeLoader", factory |-> fac,
                          fields_types |-> <<>>]
        l1 == Loader_register(loaders, info.oid, text_loader, context, TEXT)
        l2 == Loader_register(l1, info.oid, binary_loader, context, BINARY)
    IN  /\ dumpers' = IF cls # "None" THEN d2 ELSE dumpers
        /\ loaders' = l2
        /\ arrays' = IF info.array_oid # 0
                     THEN array_register(arrays, info.array_oid, info.oid, context,
                                         info.name)
                     ELSE arrays

\* -------------------------- types/composite.py: the loaders' row types

\* A loader instance: its class (base), the fields_types of a generated
\* CompositeLoader class, the instance's _types_set, the row types of its
\* own Transformer (self._tx), and how many times set_row_types and load
\* have been called on it.
LoaderInstance(base, fields_types) ==
    [base |-> base, fields_types |-> fields_types, _types_set |-> FALSE,
     row_types |-> <<>>, nset |-> 0, nload |-> 0]

\* No loader instance is followed.
NoInstance == LoaderInstance("none", <<>>)

\* The format a loader class is registered for.
FormatOf(base) == IF base = "BinaryRecordLoader" THEN BINARY ELSE TEXT

\* _config_types: the oids handed to set_row_types; BinaryRecordLoader
\* takes them from the record walked, CompositeLoader from fields_types.
_config_types(self, data) ==
    IF self.base = "BinaryRecordLoader"
    THEN LET w == _walk_record(data)
         IN  [k \in DOMAIN w.triples |-> w.triples[k].oid]
    ELSE self.fields_types

\* The fields handed to load_sequence: None, or the bytes of the field.
RecordFields(self, data) ==
    IF self.base = "BinaryRecordLoader"
    THEN LET w == _walk_record(data)
         IN  [k \in DOMAIN w.triples |->
                IF w.triples[k].length = -1 THEN [null |-> TRUE, data |-> <<>>]
                ELSE [null |-> FALSE,
                      data |-> SubSeq(data, w.triples[k].offset + 1,
                                      w.triples[k].offset + w.triples[k].length)]]
    ELSE LET tokens == _parse_record(data)
         IN  [k \in DOMAIN tokens |->
                [null |-> tokens[k].type = "NoneType", data |-> tokens[k].text]]

\* Transformer.load_sequence: each field that is not None is loaded by the
\* loader of the row type at its place.
load_sequence(fields, row_types, format) ==
    LET one(k) == IF fields[k].null THEN Loaded(PyNone)
                  ELSE Transformer_load(fields[k].data, row_types[k], format)
    IN  IF \E k \in DOMAIN fields : one(k).exc # "none"
        THEN LoadRaises(one(CHOOSE k \in DOMAIN fields : one(k).exc # "none").exc)
        ELSE Loaded(PyTuple([k \in DOMAIN fields |-> one(k).value]))

\* Faulty variant: the row types are set again at every call.
Loader_load_alwaysConfigures(self, data) ==
    LET types == _config_types(self, data)
    IN  [self |-> [self EXCEPT !._types_set = TRUE,
                               !.row_types = types,
                               !.nset = @ + 1,
                               !.nload = @ + 1],
         result |-> load_sequence(RecordFields(self, data), types, FormatOf(self.base))]

\* BinaryRecordLoader.load and CompositeLoader.load: on a loader whose
\* _types_set is false, _config_types calls set_row_types and _types_set
\* becomes true; then the fields are loaded with the row types of the
\* Transformer.  The loader afterwards, and what load returns (for a
\* CompositeLoader the arguments handed to the factory).
Loader_load(self, data) ==
    LET configure == ~self._types_set
        types == IF configure THEN _config_types(self, data) ELSE self.row_types
    IN  [self |-> [self EXCEPT !._types_set = TRUE,
                               !.row_types = types,
                               !.nset = IF configure THEN @ + 1 ELSE @,
                               !.nload = @ + 1],
         result |-> load_sequence(RecordFields(self, data), types, FormatOf(self.base))]

\* --------------------------------------------------------- the connection

\* Faulty variant: the section is entered without waiting for the lock.
Acquirable_noWait(l) == TRUE

\* `with self.conn.lock:` entered: the lock is acquired only when free.
Acquirable(l) == l = Free

\* Faulty variant: acquire() and release() around the body with no try/finally, so
\* that an exception skips the release.
ExitLock_noFinally(holder, exc) == IF exc = "none" THEN Free ELSE holder

\* `with self.conn.lock:` left by its holder, normally (exc = "none") or by
\* an exception: the lock is released.
ExitLock(holder, exc) == Free

\* ------------------------------------------------------- the query preparer

\* A query is a sequence of tokens: a piece of SQL without a percent sign
\* ("select"), the escaped percent sign "%%", the positional placeholder
\* "%s", or a named placeholder.  The rewritten query holds "%" and the
\* server's placeholders "$1", "$2", ... besides.
NamedPlaceholders == {"%(a)s", "%(b)s"}
Placeholders == {"%s"} \cup NamedPlaceholders
QueryTokens == {"select", "%%"} \cup Placeholders

\* The name in a named placeholder.
NameOf(token) == IF token = "%(a)s" THEN "a" ELSE "b"

\* The server's placeholders, by number.
Dollar == <<"$1", "$2", "$3", "$4", "$5", "$6">>

\* The parameters of execute(): None, a sequence, or a mapping (its keys in
\* insertion order, each with its value).
NoVars == [kind |-> "None", keys |-> <<>>, values |-> <<>>]
SequenceOf(values) == [kind |-> "Sequence", keys |-> <<>>, values |-> values]
MappingOf(keys, values) == [kind |-> "Mapping", keys |-> keys, values |-> values]

\* Python's truth value of the parameters: None and the empty collections
\* are false.
Truthy(params) == params.kind # "None" /\ params.values # <<>>

\* params[name], for a mapping holding the key.
Lookup(params, name) ==
    params.values[CHOOSE i \in DOMAIN params.keys : params.keys[i] = name]

\* The places of query holding the first use of a named placeholder.
FirstUses(query) ==
    {i \in DOMAIN query :
        /\ query[i] \in NamedPlaceholders
        /\ \A j \in 1..(i - 1) : query[j] # query[i]}

\* The number the server knows the placeholder at place i by: positional
\* placeholders are numbered as they come, a name by its first use.
NumberAt(query, i) ==
    IF query[i] = "%s"
    THEN Cardinality({j \in 1..i : query[j] = "%s"})
    ELSE LET first == CHOOSE j \in FirstUses(query) : query[j] = query[i]
         IN  Cardinality({j \in FirstUses(query) : j <= first})

\* utils.queries.query2pg: the query rewritten for the server ("%%" reduced
\* to "%", the placeholders numbered), one format per parameter, and for a
\* mapping the names in the order of their numbers.  A query mixing the two
\* styles, or whose placeholders do not match the parameters, is rejected.
query2pg(query, params) ==
    LET used == {query[i] : i \in DOMAIN query} \cap Placeholders
        npos == Cardinality({i \in DOMAIN query : query[i] = "%s"})
        nnamed == Cardinality(FirstUses(query))
        bad ==
            \/ "%s" \in used /\ used \cap NamedPlaceholders # {}
            \/ params.kind = "Sequence" /\ used \cap NamedPlaceholders # {}
            \/ params.kind = "Sequence" /\ npos # Len(params.values)
            \/ params.kind = "Mapping" /\ "%s" \in used
            \/ params.kind = "Mapping"
                /\ \E t \in used : \A k \in DOMAIN params.keys : params.keys[k] # NameOf(t)
        n == IF params.kind = "Sequence" THEN npos ELSE nnamed
    IN  IF bad
        THEN [exc |-> "ProgrammingError", query |-> <<>>, formats |-> <<>>,
              order |-> <<>>, ordered |-> FALSE]
        ELSE [exc |-> "none",
              query |-> [i \in DOMAIN query |->
                            IF query[i] = "%%" THEN "%"
                            ELSE IF query[i] \in Placeholders
                            THEN Dollar[NumberAt(query, i)]
                            ELSE query[i]],
              formats |-> [k \in 1..n |-> TEXT],
              order |-> [k \in 1..nnamed |->
                            NameOf(query[CHOOSE j \in FirstUses(query) :
                                            NumberAt(query, j) = k])],
              ordered |-> params.kind = "Mapping"]

\* utils.queries.reorder_params: the mapping's values in the order of the names.
reorder_params(params, order) ==
    SequenceOf([k \in DOMAIN order |-> Lookup(params, order[k])])

\* Transformer.adapt_sequence: each value dumped by the dumper of its type
\* and format (a str: its encoded text, of oid text): the payloads and the
\* oids, in the order of the values.
adapt_sequence(values, formats) ==
    LET each == [k \in DOMAIN values |->
                    IF values[k].type = "str"
                    THEN Dumped(values[k].text, TEXT_OID)
                    ELSE dump(values[k], formats[k])]
    IN  [params |-> [k \in DOMAIN values |-> each[k].data],
         types |-> [k \in DOMAIN values |-> each[k].oid]]

\* pq.Format(self.binary)
Format(b) == IF b THEN BINARY ELSE TEXT

\* No execute() yet.
NoArgs == [query |-> <<>>, vars |-> NoVars]

\* No message.
NoMessage ==
    [kind |-> "none", query |-> <<>>, params |-> <<>>, param_formats |-> <<>>,
     param_types |-> <<>>, result_format |-> TEXT]

\* pgconn.send_query: a simple-query message, whose results are in text format.
send_query(query) ==
    [kind |-> "send_query", query |-> query, params |-> <<>>,
     param_formats |-> <<>>, param_types |-> <<>>, result_format |-> TEXT]

\* pgconn.send_query_params: an extended-query message.
send_query_params(query, params, param_formats, param_types, result_format) ==
    [kind |-> "send_query_params", query |-> query, params |-> params,
     param_formats |-> param_formats, param_types |-> param_types,
     result_format |-> result_format]

\* -------------------------------------------------------- _execute_send

\* Faulty variant: the mapping's values are taken in the order of the sorted names,
\* not in the order the preparer numbered them.
_execute_send_sortedOrder(query, params, bin, st) ==
    LET pg == IF params.kind # "None"
              THEN query2pg(query, params)
              ELSE [exc |-> "none", query |-> query, formats |-> <<>>,
                    order |-> <<>>, ordered |-> FALSE]
    IN  IF pg.exc # "none"
        THEN [exc |-> pg.exc, message |-> NoMessage]
        ELSE IF st = BAD
        THEN [exc |-> "OperationalError", message |-> NoMessage]
        ELSE IF Truthy(params)
        THEN LET seq == IF pg.ordered THEN reorder_params(params, SelectSeq(<<"a", "b">>, LAMBDA n : \E k \in DOMAIN pg.order : pg.order[k] = n)) ELSE params
                 ad == adapt_sequence(seq.values, pg.formats)
             IN  [exc |-> "none",
                  message |-> send_query_params(pg.query, ad.params, pg.formats,
                                                ad.types, Format(bin))]
        ELSE [exc |-> "none", message |-> send_query(pg.query)]

\* Faulty variant: the preparer runs only when the parameters are not empty.
_execute_send_truthyPrepare(query, params, bin, st) ==
    LET pg == IF Truthy(params)
              THEN query2pg(query, params)
              ELSE [exc |-> "none", query |-> query, formats |-> <<>>,
                    order |-> <<>>, ordered |-> FALSE]
    IN  IF pg.exc # "none"
        THEN [exc |-> pg.exc, message |-> NoMessage]
        ELSE IF st = BAD
        THEN [exc |-> "OperationalError", message |-> NoMessage]
        ELSE IF Truthy(params)
        THEN LET seq == IF pg.ordered THEN reorder_params(params, pg.order) ELSE params
                 ad == adapt_sequence(seq.values, pg.formats)
             IN  [exc |-> "none",
                  message |-> send_query_params(pg.query, ad.params, pg.formats,
                                                ad.types, Format(bin))]
        ELSE [exc |-> "none", message |-> send_query(pg.query)]

\* Faulty variant: the extended-query message is used whenever parameters are
\* passed, an empty collection included.
_execute_send_paramsNotNone(query, params, bin, st) ==
    LET pg == IF params.kind # "None"
              THEN query2pg(query, params)
              ELSE [exc |-> "none", query |-> query, formats |-> <<>>,
                    order |-> <<>>, ordered |-> FALSE]
    IN  IF pg.exc # "none"
        THEN [exc |-> pg.exc, message |-> NoMessage]
        ELSE IF st = BAD
        THEN [exc |-> "OperationalError", message |-> NoMessage]
        ELSE IF params.kind # "None"
        THEN LET seq == IF pg.ordered THEN reorder_params(params, pg.order) ELSE params
                 ad == adapt_sequence(seq.values, pg.formats)
             IN  [exc |-> "none",
                  message |-> send_query_params(pg.query, ad.params, pg.formats,
                                                ad.types, Format(bin))]
        ELSE [exc |-> "none", message |-> send_query(pg.query)]

\* BaseCursor._execute_send, after _reset: the exception raised ("none": the
\* generator is returned) and the message sent.  The preparer runs when
\* params is not None; the parameters are reordered, adapted and sent in an
\* extended-query message when params is true, else the query is sent alone.
\* On a closed connection (st = BAD) the send raises OperationalError.
_execute_send(query, params, bin, st) ==
    LET pg == IF params.kind # "None"
              THEN query2pg(query, params)
              ELSE [exc |-> "none", query |-> query, formats |-> <<>>,
                    order |-> <<>>, ordered |-> FALSE]
    IN  IF pg.exc # "none"
        THEN [exc |-> pg.exc, message |-> NoMessage]
        ELSE IF st = BAD
        THEN [exc |-> "OperationalError", message |-> NoMessage]
        ELSE IF Truthy(params)
        THEN LET seq == IF pg.ordered THEN reorder_params(params, pg.order) ELSE params
                 ad == adapt_sequence(seq.values, pg.formats)
             IN  [exc |-> "none",
                  message |-> send_query_params(pg.query, ad.params, pg.formats,
                                                ad.types, Format(bin))]
        ELSE [exc |-> "none", message |-> send_query(pg.query)]

\* ------------------------------------------------------------- the cursor

\* Faulty variant: _reset forgets to drop the previous results.
_reset_keepResults(cur) == [cur EXCEPT !.pos = 0, !.iresult = 0]

\* BaseCursor._reset, on the cursor's fields.
_reset(cur) == [results |-> <<>>, result |-> None, pos |-> 0, iresult |-> 0]

\* BaseCursor._execute_results: the set of offending statuses.
badstats(results) ==
    {results[i].status : i \in DOMAIN results} \ {TUPLES_OK, COMMAND_OK, EMPTY_QUERY}

\* ', '.join(sorted(s.name for s in sorted(badstats))), as a sequence.
SortedNames(stats) == SelectSeq(StatusNames, LAMBDA n : n \in stats)

CopyMessage == <<"COPY cannot be used with execute(); use copy() insead">>

\* Faulty variant: the SQLSTATE is not mapped; every server error is a plain
\* DatabaseError.
_execute_results_noClass(results) ==
    IF results = <<>>
    THEN [exc |-> "InternalError", msg |-> <<"got no result from the query">>,
          results |-> <<>>, result |-> None]
    ELSE IF badstats(results) = {}
    THEN [exc |-> "none", msg |-> <<>>,
          results |-> results, result |-> results[1]]
    ELSE IF results[Len(results)].status = FATAL_ERROR
    THEN [exc |-> "DatabaseError",
          msg |-> <<results[Len(results)].sqlstate>>,
          results |-> <<>>, result |-> None]
    ELSE IF badstats(results) \cap {COPY_IN, COPY_OUT, COPY_BOTH} # {}
    THEN [exc |-> "ProgrammingError", msg |-> CopyMessage,
          results |-> <<>>, result |-> None]
    ELSE [exc |-> "InternalError", msg |-> SortedNames(badstats(results)),
          results |-> <<>>, result |-> None]

\* Faulty variant: only the last result is tested for a COPY status.
_execute_results_copyLast(results) ==
    IF results = <<>>
    THEN [exc |-> "InternalError", msg |-> <<"got no result from the query">>,
          results |-> <<>>, result |-> None]
    ELSE IF badstats(results) = {}
    THEN [exc |-> "none", msg |-> <<>>,
          results |-> results, result |-> results[1]]
    ELSE IF results[Len(results)].status = FATAL_ERROR
    THEN [exc |-> class_for_state(results[Len(results)].sqlstate),
          msg |-> <<results[Len(results)].sqlstate>>,
          results |-> <<>>, result |-> None]
    ELSE IF results[Len(results)].status \in {COPY_IN, COPY_OUT, COPY_BOTH}
    THEN [exc |-> "ProgrammingError", msg |-> CopyMessage,
          results |-> <<>>, result |-> None]
    ELSE [exc |-> "InternalError", msg |-> SortedNames(badstats(results)),
          results |-> <<>>, result |-> None]

\* Faulty variant: a FATAL_ERROR anywhere in the list, not only at its end, raises
\* the server's error.
_execute_results_anyFatal(results) ==
    IF results = <<>>
    THEN [exc |-> "InternalError", msg |-> <<"got no result from the query">>,
          results |-> <<>>, result |-> None]
    ELSE IF badstats(results) = {}
    THEN [exc |-> "none", msg |-> <<>>,
          results |-> results, result |-> results[1]]
    ELSE IF FATAL_ERROR \in badstats(results)
    THEN [exc |-> class_for_state(results[Len(results)].sqlstate),
          msg |-> <<results[Len(results)].sqlstate>>,
          results |-> <<>>, result |-> None]
    ELSE IF badstats(results) \cap {COPY_IN, COPY_OUT, COPY_BOTH} # {}
    THEN [exc |-> "ProgrammingError", msg |-> CopyMessage,
          results |-> <<>>, result |-> None]
    ELSE [exc |-> "InternalError", msg |-> SortedNames(badstats(results)),
          results |-> <<>>, result |-> None]

\* Faulty variant: the offending status names are listed in descending
\* order.
_execute_results_descending(results) ==
    IF results = <<>>
    THEN [exc |-> "InternalError", msg |-> <<"got no result from the query">>,
          results |-> <<>>, result |-> None]
    ELSE IF badstats(results) = {}
    THEN [exc |-> "none", msg |-> <<>>,
          results |-> results, result |-> results[1]]
    ELSE IF results[Len(results)].status = FATAL_ERROR
    THEN [exc |-> class_for_state(results[Len(results)].sqlstate),
          msg |-> <<results[Len(results)].sqlstate>>,
          results |-> <<>>, result |-> None]
    ELSE IF badstats(results) \cap {COPY_IN, COPY_OUT, COPY_BOTH} # {}
    THEN [exc |-> "ProgrammingError", msg |-> CopyMessage,
          results |-> <<>>, result |-> None]
    ELSE [exc |-> "InternalError", msg |-> LET names == SortedNames(badstats(results))
                   IN  [i \in DOMAIN names |-> names[Len(names) + 1 - i]],
          results |-> <<>>, result |-> None]

\* Faulty variant: the last result is made current, not the first.
_execute_results_lastCurrent(results) ==
    IF results = <<>>
    THEN [exc |-> "InternalError", msg |-> <<"got no result from the query">>,
          results |-> <<>>, result |-> None]
    ELSE IF badstats(results) = {}
    THEN [exc |-> "none", msg |-> <<>>,
          results |-> results, result |-> results[Len(results)]]
    ELSE IF results[Len(results)].status = FATAL_ERROR
    THEN [exc |-> class_for_state(results[Len(results)].sqlstate),
          msg |-> <<results[Len(results)].sqlstate>>,
          results |-> <<>>, result |-> None]
    ELSE IF badstats(results) \cap {COPY_IN, COPY_OUT, COPY_BOTH} # {}
    THEN [exc |-> "ProgrammingError", msg |-> CopyMessage,
          results |-> <<>>, result |-> None]
    ELSE [exc |-> "InternalError", msg |-> SortedNames(badstats(results)),
          results |-> <<>>, result |-> None]

\* BaseCursor._execute_results: the exception raised ("none": a normal
\* return) with its message, and the values assigned to _results and
\* _result (assigned only on a normal return).
_execute_results(results) ==
    IF results = <<>>
    THEN [exc |-> "InternalError", msg |-> <<"got no result from the query">>,
          results |-> <<>>, result |-> None]
    ELSE IF badstats(results) = {}
    THEN [exc |-> "none", msg |-> <<>>,
          results |-> results, result |-> results[1]]
    ELSE IF results[Len(results)].status = FATAL_ERROR
    THEN [exc |-> class_for_state(results[Len(results)].sqlstate),
          msg |-> <<results[Len(results)].sqlstate>>,
          results |-> <<>>, result |-> None]
    ELSE IF badstats(results) \cap {COPY_IN, COPY_OUT, COPY_BOTH} # {}
    THEN [exc |-> "ProgrammingError", msg |-> CopyMessage,
          results |-> <<>>, result |-> None]
    ELSE [exc |-> "InternalError", msg |-> SortedNames(badstats(results)),
          results |-> <<>>, result |-> None]

\* Faulty variant: the bound on the row number is off by one.
_cast_row_offByOne(res, n) ==
    IF res = None THEN [some |-> FALSE, id |-> 0, row |-> 0]
    ELSE IF n > res.ntuples THEN [some |-> FALSE, id |-> 0, row |-> 0]
    ELSE [some |-> TRUE, id |-> res.id, row |-> n]

\* BaseCursor._cast_row: the row returned (some = FALSE: None).
_cast_row(res, n) ==
    IF res = None THEN [some |-> FALSE, id |-> 0, row |-> 0]
    ELSE IF n >= res.ntuples THEN [some |-> FALSE, id |-> 0, row |-> 0]
    ELSE [some |-> TRUE, id |-> res.id, row |-> n]

\* Faulty variant: the last result set is never reached.
HasNextset_early(i, results) == i < Len(results) - 1

\* BaseCursor.nextset: whether there is a result at the advanced index.
HasNextset(i, results) == i < Len(results)

TypeOK ==
    /\ lock \in Cursors \cup {ConnCaller, Free}
    /\ status \in {OK, BAD}
    /\ tstatus \in {IDLE, INTRANS, INERROR, UNKNOWN}
    /\ srvtx \in {IDLE, INTRANS, INERROR}
    /\ foo \in [visible : BOOLEAN, committed : BOOLEAN]
    /\ cpc \in {"idle", "commit", "rollback"}
    /\ pc \in [Cursors -> {"idle", "sent"}]
    /\ \A c \in Cursors :
        /\ Len(pending[c]) <= MaxResults
        /\ Len(_results[c]) <= MaxResults
        /\ _pos[c] \in 0..MaxRows
        /\ _iresult[c] \in 0..MaxNextset
        /\ nfetch[c] \in 0..MaxFetch
        /\ nnext[c] \in 0..MaxNextset

InitConnection ==
    /\ lock = Free
    /\ status = OK
    /\ tstatus = IDLE
    /\ srvtx = IDLE
    /\ foo = [visible |-> FALSE, committed |-> FALSE]
    /\ wire = "none"
    /\ cpc = "idle"
    /\ connout = [op |-> "none", out |-> "none"]
    /\ pc = [c \in Cursors |-> "idle"]
    /\ pending = [c \in Cursors |-> <<>>]
    /\ _results = [c \in Cursors |-> <<>>]
    /\ _result = [c \in Cursors |-> None]
    /\ _pos = [c \in Cursors |-> 0]
    /\ _iresult = [c \in Cursors |-> 0]
    /\ outcome = [c \in Cursors |-> NoOutcome]
    /\ rv = [c \in Cursors |-> NoRv]
    /\ nfetch = [c \in Cursors |-> 0]
    /\ nnext = [c \in Cursors |-> 0]
    /\ args = NoArgs
    /\ message = NoMessage

\* No dumper or loader is being followed.
InitAdapt ==
    /\ obj = PyNone
    /\ dumped = NotDumped
    /\ loaded = NotLoaded

\* The adapters maps before any registration that is followed.
InitRegistry ==
    /\ dumpers = [s \in Scopes |-> [k \in DumperKeys |-> NoDumper]]
    /\ loaders = [s \in Scopes |-> [k \in LoaderKeys |-> NoLoader]]
    /\ arrays = [s \in Scopes |-> [k \in ArrayKeys |-> NoArray]]
    /\ nregister = 0

\* A connection and its cursors, created with binary = False.
Init ==
    /\ InitConnection
    /\ binary = [c \in Cursors |-> FALSE]
    /\ InitAdapt
    /\ InitRegistry
    /\ instance = NoInstance

\* Cursor.execute / AsyncCursor.execute, up to the wait: the lock is
\* acquired and _execute_send runs (_reset, the preparer, the send).  An
\* exception (the preparer rejects the query; on a closed connection the
\* send raises) leaves the `with` block, releasing the lock.
ExecuteSend(c, query, params) ==
    /\ pc[c] = "idle"
    /\ Acquirable(lock)
    /\ LET cur == _reset([results |-> _results[c], result |-> _result[c],
                          pos |-> _pos[c], iresult |-> _iresult[c]]) IN
        /\ _results' = [_results EXCEPT ![c] = cur.results]
        /\ _result' = [_result EXCEPT ![c] = cur.result]
        /\ _pos' = [_pos EXCEPT ![c] = cur.pos]
        /\ _iresult' = [_iresult EXCEPT ![c] = cur.iresult]
    /\ rv' = [rv EXCEPT ![c] = NoRv]
    /\ nfetch' = [nfetch EXCEPT ![c] = 0]
    /\ nnext' = [nnext EXCEPT ![c] = 0]
    /\ pending' = [pending EXCEPT ![c] = <<>>]
    /\ args' = [query |-> query, vars |-> params]
    /\ LET send == _execute_send(query, params, binary[c], status) IN
        /\ message' = send.message
        /\ IF send.exc # "none"
           THEN /\ outcome' = [outcome EXCEPT ![c] =
                       [exc |-> send.exc, at |-> "send", msg |-> <<>>]]
                /\ lock' = ExitLock(c, send.exc)
                /\ UNCHANGED <<pc, srvtx, wire>>
           ELSE /\ outcome' = [outcome EXCEPT ![c] = Running]
                /\ lock' = c
                /\ pc' = [pc EXCEPT ![c] = "sent"]
                /\ srvtx' = tstatus
                /\ wire' = "query"
    /\ UNCHANGED <<status, tstatus, foo, cpc, connout>>
    /\ UNCHANGED outsidevars

\* The server produces one more result of the query of cursor c, which the
\* generator collects.
ServerResult(c, shape, cmd) ==
    /\ pc[c] = "sent"
    /\ status = OK
    /\ Len(pending[c]) < MaxResults
    /\ ServerCan(srvtx, shape[1], cmd)
    /\ pending' = [pending EXCEPT ![c] =
            Append(@, PGresult(Len(@) + 1, shape[1], shape[2], shape[3]))]
    /\ srvtx' = TransAfter(srvtx, shape[1], cmd)
    /\ foo' = DataAfter(srvtx, shape[1], cmd, foo)
    /\ UNCHANGED <<lock, status, tstatus, wire, cpc, connout, pc, outcome>>
    /\ UNCHANGED cursorvars
    /\ UNCHANGED callvars
    /\ UNCHANGED sendvars
    /\ UNCHANGED outsidevars

\* Faulty variant: the results are installed before their statuses are
\* looked at.
ExecuteReturn_installsFirst(c) ==
    /\ pc[c] = "sent"
    /\ status = OK
    /\ LET r == _execute_results(pending[c]) IN
        /\ IF r.exc = "none"
           THEN /\ _results' = [_results EXCEPT ![c] = r.results]
                /\ _result' = [_result EXCEPT ![c] = r.result]
           ELSE /\ _results' = [_results EXCEPT ![c] = pending[c]]
                /\ _result' = [_result EXCEPT ![c] =
                        IF pending[c] = <<>> THEN None ELSE pending[c][1]]
        /\ outcome' = [outcome EXCEPT ![c] =
                [exc |-> r.exc, at |-> "results", msg |-> r.msg]]
        /\ lock' = ExitLock(c, r.exc)
    /\ tstatus' = srvtx
    /\ pc' = [pc EXCEPT ![c] = "idle"]
    /\ UNCHANGED <<status, srvtx, foo, wire, cpc, connout, pending, _pos, _iresult>>
    /\ UNCHANGED callvars
    /\ UNCHANGED sendvars
    /\ UNCHANGED outsidevars

\* Cursor.execute / AsyncCursor.execute, from the return of the wait: the
\* generator returns its results at the server's ReadyForQuery, which
\* carries the transaction status; _execute_results installs them or
\* raises; the `with` block is left.
ExecuteReturn(c) ==
    /\ pc[c] = "sent"
    /\ status = OK
    /\ LET r == _execute_results(pending[c]) IN
        /\ IF r.exc = "none"
           THEN /\ _results' = [_results EXCEPT ![c] = r.results]
                /\ _result' = [_result EXCEPT ![c] = r.result]
           ELSE UNCHANGED <<_results, _result>>
        /\ outcome' = [outcome EXCEPT ![c] =
                [exc |-> r.exc, at |-> "results", msg |-> r.msg]]
        /\ lock' = ExitLock(c, r.exc)
    /\ tstatus' = srvtx
    /\ pc' = [pc EXCEPT ![c] = "idle"]
    /\ UNCHANGED <<status, srvtx, foo, wire, cpc, connout, pending, _pos, _iresult>>
    /\ UNCHANGED callvars
    /\ UNCHANGED sendvars
    /\ UNCHANGED outsidevars

\* Cursor.execute / AsyncCursor.execute when the wait raises: a transport
\* failure, which ends the connection, or the connection closed under the
\* query.  The `with` block is left by the exception.
ExecuteWaitError(c) ==
    /\ pc[c] = "sent"
    /\ outcome' = [outcome EXCEPT ![c] =
            [exc |-> "OperationalError", at |-> "wait", msg |-> <<>>]]
    /\ lock' = ExitLock(c, "OperationalError")
    /\ status' = BAD
    /\ tstatus' = UNKNOWN
    /\ pc' = [pc EXCEPT ![c] = "idle"]
    /\ pending' = [pending EXCEPT ![c] = <<>>]
    /\ UNCHANGED <<srvtx, foo, wire, cpc, connout>>
    /\ UNCHANGED cursorvars
    /\ UNCHANGED callvars
    /\ UNCHANGED sendvars
    /\ UNCHANGED outsidevars

\* BaseCursor.fetchone
fetchone(c) ==
    /\ pc[c] = "idle"
    /\ nfetch[c] < MaxFetch
    /\ LET row == _cast_row(_result[c], _pos[c]) IN
        /\ _pos' = [_pos EXCEPT ![c] = IF row.some THEN @ + 1 ELSE @]
        /\ rv' = [rv EXCEPT ![c] =
                [op |-> "fetchone", some |-> row.some, id |-> row.id, row |-> row.row]]
    /\ nfetch' = [nfetch EXCEPT ![c] = @ + 1]
    /\ UNCHANGED <<_results, _result, _iresult, nnext, pc, pending, outcome>>
    /\ UNCHANGED connvars
    /\ UNCHANGED sendvars
    /\ UNCHANGED outsidevars

\* Faulty variant: the row position is rewound even when there is no
\* further result set.
nextset_rewinds(c) ==
    /\ pc[c] = "idle"
    /\ _iresult[c] < MaxNextset
    /\ _iresult' = [_iresult EXCEPT ![c] = @ + 1]
    /\ nnext' = [nnext EXCEPT ![c] = @ + 1]
    /\ IF HasNextset(_iresult[c] + 1, _results[c])
       THEN /\ _result' = [_result EXCEPT ![c] = _results[c][(_iresult[c] + 1) + 1]]
            /\ _pos' = [_pos EXCEPT ![c] = 0]
            /\ rv' = [rv EXCEPT ![c] =
                    [op |-> "nextset", some |-> TRUE,
                     id |-> _results[c][(_iresult[c] + 1) + 1].id, row |-> 0]]
            /\ nfetch' = [nfetch EXCEPT ![c] = 0]
       ELSE /\ rv' = [rv EXCEPT ![c] =
                    [op |-> "nextset", some |-> FALSE, id |-> 0, row |-> 0]]
            /\ _pos' = [_pos EXCEPT ![c] = 0]
            /\ UNCHANGED <<_result, nfetch>>
    /\ UNCHANGED <<_results, pc, pending, outcome>>
    /\ UNCHANGED connvars
    /\ UNCHANGED sendvars
    /\ UNCHANGED outsidevars

\* BaseCursor.nextset
nextset(c) ==
    /\ pc[c] = "idle"
    /\ _iresult[c] < MaxNextset
    /\ _iresult' = [_iresult EXCEPT ![c] = @ + 1]
    /\ nnext' = [nnext EXCEPT ![c] = @ + 1]
    /\ IF HasNextset(_iresult[c] + 1, _results[c])
       THEN /\ _result' = [_result EXCEPT ![c] = _results[c][(_iresult[c] + 1) + 1]]
            /\ _pos' = [_pos EXCEPT ![c] = 0]
            /\ rv' = [rv EXCEPT ![c] =
                    [op |-> "nextset", some |-> TRUE,
                     id |-> _results[c][(_iresult[c] + 1) + 1].id, row |-> 0]]
            /\ nfetch' = [nfetch EXCEPT ![c] = 0]
       ELSE /\ rv' = [rv EXCEPT ![c] =
                    [op |-> "nextset", some |-> FALSE, id |-> 0, row |-> 0]]
            /\ UNCHANGED <<_result, _pos, nfetch>>
    /\ UNCHANGED <<_results, pc, pending, outcome>>
    /\ UNCHANGED connvars
    /\ UNCHANGED sendvars
    /\ UNCHANGED outsidevars

\* Connection.close: the transport is closed; the connection is BAD from
\* then on.  Closing a closed connection changes nothing.
close ==
    /\ status' = BAD
    /\ tstatus' = UNKNOWN
    /\ connout' = [op |-> "close", out |-> "ok"]
    /\ UNCHANGED <<lock, srvtx, foo, wire, cpc, pc, pending, outcome>>
    /\ UNCHANGED cursorvars
    /\ UNCHANGED callvars
    /\ UNCHANGED sendvars
    /\ UNCHANGED outsidevars

\* Faulty variant: the command is sent whatever the transaction status.
CommitRollbackSend_noIdleCheck(command) ==
    /\ cpc = "idle"
    /\ IF status = BAD
       THEN /\ connout' = [op |-> command, out |-> "OperationalError"]
            /\ UNCHANGED <<lock, cpc, srvtx, wire>>
       ELSE /\ Acquirable(lock)
            /\ connout' = [op |-> command, out |-> "running"]
            /\ lock' = ConnCaller
            /\ cpc' = command
            /\ srvtx' = tstatus
            /\ wire' = command
    /\ UNCHANGED <<status, tstatus, foo, pc, pending, outcome>>
    /\ UNCHANGED cursorvars
    /\ UNCHANGED callvars
    /\ UNCHANGED sendvars
    /\ UNCHANGED outsidevars

\* Connection.commit / Connection.rollback, up to the wait: on a closed
\* connection OperationalError is raised; under the lock, nothing is done
\* when the transaction status is IDLE, else the command is sent.
CommitRollbackSend(command) ==
    /\ cpc = "idle"
    /\ IF status = BAD
       THEN /\ connout' = [op |-> command, out |-> "OperationalError"]
            /\ UNCHANGED <<lock, cpc, srvtx, wire>>
       ELSE /\ Acquirable(lock)
            /\ IF tstatus = IDLE
               THEN /\ connout' = [op |-> command, out |-> "noop"]
                    /\ lock' = ExitLock(ConnCaller, "none")
                    /\ UNCHANGED <<cpc, srvtx, wire>>
               ELSE /\ connout' = [op |-> command, out |-> "running"]
                    /\ lock' = ConnCaller
                    /\ cpc' = command
                    /\ srvtx' = tstatus
                    /\ wire' = command
    /\ UNCHANGED <<status, tstatus, foo, pc, pending, outcome>>
    /\ UNCHANGED cursorvars
    /\ UNCHANGED callvars
    /\ UNCHANGED sendvars
    /\ UNCHANGED outsidevars

\* Connection.commit / Connection.rollback, from the return of the wait:
\* the server has ended the transaction and is ready for a query.
CommitRollbackReturn ==
    /\ cpc # "idle"
    /\ status = OK
    /\ srvtx' = TransAfter(srvtx, COMMAND_OK, cpc)
    /\ tstatus' = TransAfter(srvtx, COMMAND_OK, cpc)
    /\ foo' = DataAfter(srvtx, COMMAND_OK, cpc, foo)
    /\ connout' = [op |-> cpc, out |-> "ok"]
    /\ lock' = ExitLock(ConnCaller, "none")
    /\ cpc' = "idle"
    /\ UNCHANGED <<status, wire, pc, pending, outcome>>
    /\ UNCHANGED cursorvars
    /\ UNCHANGED callvars
    /\ UNCHANGED sendvars
    /\ UNCHANGED outsidevars

\* Connection.commit / Connection.rollback when the wait raises.
CommitRollbackError ==
    /\ cpc # "idle"
    /\ connout' = [op |-> cpc, out |-> "OperationalError"]
    /\ lock' = ExitLock(ConnCaller, "OperationalError")
    /\ cpc' = "idle"
    /\ status' = BAD
    /\ tstatus' = UNKNOWN
    /\ UNCHANGED <<srvtx, foo, wire, pc, pending, outcome>>
    /\ UNCHANGED cursorvars
    /\ UNCHANGED callvars
    /\ UNCHANGED sendvars
    /\ UNCHANGED outsidevars

\* The steps of execute() on cursor c, its arguments drawn from calls and
\* the server's results from shapes.
Execute(c, calls, shapes) ==
    \/ \E call \in calls : ExecuteSend(c, call[1], call[2])
    \/ \E shape \in shapes :
         \E cmd \in (IF shape[1] = COMMAND_OK THEN Commands ELSE {"other"}) :
            ServerResult(c, shape, cmd)
    \/ ExecuteReturn(c)
    \/ ExecuteWaitError(c)

\* The calls followed where the query and its parameters are not the point:
\* a query without parameters, and one that the preparer rejects.
PlainCalls ==
    {<<<<"select">>, NoVars>>,
     <<<<"select", "%s", "%s">>,
       SequenceOf(<<PyInt([neg |-> FALSE, mag |-> <<1>>])>>)>>}

\* The result shapes followed when several cursors share the connection.
SharedShapes ==
    {<<COMMAND_OK, 0, "">>, <<FATAL_ERROR, 0, "23505">>, <<COPY_IN, 0, "">>}

\* Several cursors share the connection, which is committed, rolled back
\* and closed meanwhile.
Next ==
    \/ \E c \in Cursors : Execute(c, PlainCalls, SharedShapes)
    \/ close
    \/ \E command \in {"commit", "rollback"} : CommitRollbackSend(command)
    \/ CommitRollbackReturn
    \/ CommitRollbackError

Spec == Init /\ [][Next]_vars

\* One cursor, every shape of result, and the cursor's fetchone and nextset.
NextCursor ==
    \/ Execute("c1", PlainCalls, ResultShapes)
    \/ fetchone("c1")
    \/ nextset("c1")

SpecCursor == Init /\ [][NextCursor]_vars

\* The queries passed to execute().
Queries == UNION {[1..n -> QueryTokens] : n \in 0..MaxQueryLen}

\* The parameter values passed to execute(): the int 42 and the str "hi".
V42 == PyInt([neg |-> FALSE, mag |-> <<42>>])
VHi == PyStr(<<104, 105>>)
ParamValues == {V42, VHi}

\* The parameters passed to execute(): None, a sequence, or a mapping with
\* the keys a and b in either insertion order.
ParamSets ==
    {NoVars}
    \cup {SequenceOf(vs) : vs \in UNION {[1..n -> ParamValues] : n \in 0..MaxParams}}
    \cup {MappingOf(ks, vs) :
            ks \in {k \in {<<>>, <<"a">>, <<"b">>, <<"a", "b">>, <<"b", "a">>} :
                        Len(k) <= MaxParams},
            vs \in UNION {[1..n -> ParamValues] : n \in 0..MaxParams}}

\* The calls of execute() followed for the message it sends.
SendCalls == {call \in Queries \X ParamSets :
                call[2].kind = "Mapping" => Len(call[2].keys) = Len(call[2].values)}

\* The results followed there: one shape is enough.
SendShapes == {<<TUPLES_OK, 0, "">>}

\* A cursor created with binary = False or binary = True.
InitSend ==
    /\ InitConnection
    /\ binary \in {b \in [Cursors -> BOOLEAN] : ~b["c2"]}
    /\ InitAdapt
    /\ InitRegistry
    /\ instance = NoInstance

\* The first execute() of a new cursor, for every query and every
\* collection of parameters (every execute() starts from _reset: a later
\* one sends what a first one does).
NextSend ==
    \/ /\ outcome["c1"] = NoOutcome
       /\ \E call \in SendCalls : ExecuteSend("c1", call[1], call[2])
    \/ \E shape \in SendShapes : ServerResult("c1", shape, "other")
    \/ ExecuteReturn("c1")
    \/ ExecuteWaitError("c1")

SpecSend == InitSend /\ [][NextSend]_vars

\* ------------------------------------------------- dumping and loading

\* The magnitudes 2^15, 2^16, 2^31, 2^32, 2^63 and 2^64: the limits of the
\* signed and unsigned ranges of 2, 4 and 8 bytes.
LimitMags ==
    {<<32768>>, <<1, 0>>, <<32768, 0>>, <<1, 0, 0>>, <<32768, 0, 0, 0>>,
     <<1, 0, 0, 0, 0>>}

\* The magnitude m - 1, for m one of the limits.
Pred(m) ==
    IF m[1] = 1 THEN [i \in 1..(Len(m) - 1) |-> 65535]
    ELSE [i \in 1..Len(m) |-> IF i = 1 THEN 32767 ELSE 65535]

\* The magnitudes within MaxDelta of a limit, and of zero.
MagsNearLimits ==
    {<<d>> : d \in 1..MaxDelta}
    \cup {[m EXCEPT ![Len(m)] = @ + d] : m \in LimitMags, d \in 0..MaxDelta}
    \cup {[m EXCEPT ![Len(m)] = @ - d] :
            m \in {Pred(l) : l \in LimitMags}, d \in 0..(MaxDelta - 1)}

\* The ints and bools handed to the dumpers.
NumericInputs ==
    {PyInt(Zero)}
    \cup {PyInt([neg |-> n, mag |-> m]) : n \in BOOLEAN, m \in MagsNearLimits}
    \cup {PyBool(b) : b \in BOOLEAN}

\* A value to dump.
InitNumeric ==
    /\ InitConnection
    /\ binary = [c \in Cursors |-> FALSE]
    /\ obj \in NumericInputs
    /\ dumped = NotDumped
    /\ loaded = NotLoaded
    /\ InitRegistry
    /\ instance = NoInstance

\* The dumper of the value's type is called, in text or in binary format.
DumpValue(format) ==
    /\ dumped = NotDumped
    /\ LET d == dump(obj, format)
       IN  dumped' = [exc |-> d.exc, data |-> d.data, oid |-> d.oid, format |-> format]
    /\ UNCHANGED <<obj, loaded>>
    /\ UNCHANGED registryvars
    /\ UNCHANGED instance
    /\ UNCHANGED facadevars

\* The loader registered for the dumper's oid, at the dumper's format, is
\* called on the dumper's data.
LoadValue ==
    /\ dumped.exc = "none"
    /\ loaded = NotLoaded
    /\ loaded' = load(dumped.data, dumped.oid, dumped.format)
    /\ UNCHANGED <<obj, dumped>>
    /\ UNCHANGED registryvars
    /\ UNCHANGED instance
    /\ UNCHANGED facadevars

NextNumeric ==
    \/ \E format \in {TEXT, BINARY} : DumpValue(format)
    \/ LoadValue

SpecNumeric == InitNumeric /\ [][NextNumeric]_vars

\* ------------------------------------------- composites in text format

\* The characters of the fields: a letter, and the characters the dumper
\* and the tokenizer treat apart: double quote, comma, backslash, space and
\* the two parentheses.
FieldChars == {97, 34, 44, 92, 32, 40, 41}

\* The texts of at most MaxFieldLen characters.
FieldTexts == UNION {[1..n -> FieldChars] : n \in 0..MaxFieldLen}

\* The fields: NULL or a text.
TextFields == {PyNone} \cup {PyStr(s) : s \in FieldTexts}

\* The tuples of at most MaxFields fields.
TextTuples == {PyTuple(items) : items \in UNION {[1..n -> TextFields] : n \in 0..MaxFields}}

\* A tuple to dump.
InitText ==
    /\ InitConnection
    /\ binary = [c \in Cursors |-> FALSE]
    /\ obj \in TextTuples
    /\ dumped = NotDumped
    /\ loaded = NotLoaded
    /\ InitRegistry
    /\ instance = NoInstance

\* TextTupleDumper.dump is called on the tuple.
DumpTuple ==
    /\ dumped = NotDumped
    /\ LET d == TextTupleDumper_dump(obj.items)
       IN  dumped' = [exc |-> d.exc, data |-> d.data, oid |-> d.oid, format |-> TEXT]
    /\ UNCHANGED <<obj, loaded>>
    /\ UNCHANGED registryvars
    /\ UNCHANGED instance
    /\ UNCHANGED facadevars

\* RecordLoader.load is called on the dumper's data.
LoadRecord ==
    /\ dumped.exc = "none"
    /\ loaded = NotLoaded
    /\ loaded' = RecordLoader_load(dumped.data)
    /\ UNCHANGED <<obj, dumped>>
    /\ UNCHANGED registryvars
    /\ UNCHANGED instance
    /\ UNCHANGED facadevars

NextText ==
    \/ DumpTuple
    \/ LoadRecord

SpecText == InitText /\ [][NextText]_vars

\* ----------------------------------------- composites in binary format

\* The fields: NULL, a text of at most MaxFieldLen letters, a bool.
BinaryFields ==
    {PyNone}
    \cup {PyStr(s) : s \in UNION {[1..n -> {97, 98}] : n \in 0..MaxFieldLen}}
    \cup {PyBool(b) : b \in BOOLEAN}

\* The tuples of at most MaxFields fields.
BinaryTuples ==
    {PyTuple(items) : items \in UNION {[1..n -> BinaryFields] : n \in 0..MaxFields}}

\* A tuple to dump.
InitBinary ==
    /\ InitConnection
    /\ binary = [c \in Cursors |-> FALSE]
    /\ obj \in BinaryTuples
    /\ dumped = NotDumped
    /\ loaded = NotLoaded
    /\ InitRegistry
    /\ instance = NoInstance

\* BinaryTupleDumper.dump is called on the tuple, by a dumper whose oid is
\* the oid of record.
DumpBinaryTuple ==
    /\ dumped = NotDumped
    /\ LET d == BinaryTupleDumper_dump(obj.items, RECORD_OID)
       IN  dumped' = [exc |-> d.exc, data |-> d.data, oid |-> d.oid, format |-> BINARY]
    /\ UNCHANGED <<obj, loaded>>
    /\ UNCHANGED registryvars
    /\ UNCHANGED instance
    /\ UNCHANGED facadevars

\* BinaryRecordLoader.load is called on the dumper's data.
LoadBinaryRecord ==
    /\ dumped.exc = "none"
    /\ loaded = NotLoaded
    /\ loaded' = BinaryRecordLoader_load(dumped.data)
    /\ UNCHANGED <<obj, dumped>>
    /\ UNCHANGED registryvars
    /\ UNCHANGED instance
    /\ UNCHANGED facadevars

NextBinary ==
    \/ DumpBinaryTuple
    \/ LoadBinaryRecord

SpecBinary == InitBinary /\ [][NextBinary]_vars

\* -------------------------------------------- registration of composites

\* A call of register(); at most MaxRegister of them are followed.
Register(info, context, cls, factory) ==
    /\ nregister < MaxRegister
    /\ nregister' = nregister + 1
    /\ register(info, context, cls, factory)
    /\ UNCHANGED instance
    /\ UNCHANGED adaptvars
    /\ UNCHANGED facadevars

NextRegister ==
    \E info \in Infos, context \in Contexts, cls \in Classes \cup {"None"},
       factory \in Factories \cup {"None"} :
        Register(info, context, cls, factory)

SpecRegister == Init /\ [][NextRegister]_vars

\* ------------------------------------------- a loader called repeatedly

\* The loaders followed: a BinaryRecordLoader, and a CompositeLoader
\* generated for a composite of MaxFields fields, an int4 and then texts.
LoaderInstances ==
    {LoaderInstance("BinaryRecordLoader", <<>>),
     LoaderInstance("CompositeLoader",
                    [i \in 1..MaxFields |-> IF i = 1 THEN INT4_OID ELSE TEXT_OID])}

\* The records of MaxFields fields the server sends: to the binary loader,
\* of NULLs, texts and bools in any mix; to the composite's loader, an int4
\* or NULL and then texts or NULLs, all in text format.
RecordsFor(base) ==
    IF base = "BinaryRecordLoader"
    THEN {PyTuple(items) :
            items \in [1..MaxFields ->
                        {PyNone, PyStr(<<>>), PyStr(<<97>>), PyBool(TRUE)}]}
    ELSE {PyTuple(items) :
            items \in {f \in [1..MaxFields ->
                                {PyNone, PyStr(<<55>>), PyStr(<<49, 50>>), PyStr(<<97>>)}] :
                        /\ f[1] # PyStr(<<97>>)
                        /\ \A i \in 2..MaxFields : f[i] \in {PyNone, PyStr(<<97>>)}}}

\* A loader instance, not called yet.
InitLoaderSpec ==
    /\ InitConnection
    /\ binary = [c \in Cursors |-> FALSE]
    /\ InitAdapt
    /\ InitRegistry
    /\ instance \in LoaderInstances

\* load() is called on the loader, with a record as the server sends it:
\* the bytes that the tuple dumper of the loader's format gives for it.
LoadAgain(record) ==
    /\ instance.nload < MaxLoads
    /\ LET format == FormatOf(instance.base)
           d == IF format = BINARY
                THEN BinaryTupleDumper_dump(record.items, RECORD_OID)
                ELSE TextTupleDumper_dump(record.items)
           r == Loader_load(instance, d.data)
       IN  /\ obj' = record
           /\ dumped' = [exc |-> d.exc, data |-> d.data, oid |-> d.oid, format |-> format]
           /\ instance' = r.self
           /\ loaded' = r.result
    /\ UNCHANGED registryvars
    /\ UNCHANGED facadevars

NextLoader == \E record \in RecordsFor(instance.base) : LoadAgain(record)

SpecLoader == InitLoaderSpec /\ [][NextLoader]_vars

\* ------------------------------------------------------------------ claims

\* The callers between the send of their query and the end of its results.
InFlight ==
    {c \in Cursors : pc[c] = "sent"}
    \cup (IF cpc # "idle" THEN {ConnCaller} ELSE {})

\* C1: whatever the interleaving of the execute() calls of the cursors
\* sharing the connection, at most one caller is between the send of its
\* query and the end of _execute_results, and it holds the connection's lock.
C1_OneInFlight ==
    /\ Cardinality(InFlight) <= 1
    /\ \A x \in InFlight : lock = x

\* C1 witness: a cursor's query is in flight, results arriving, after the
\* other cursor has run a query of its own on the same connection.
C1_Witness ==
    /\ pc["c1"] = "sent"
    /\ Len(pending["c1"]) > 0
    /\ outcome["c2"].at = "results"

\* C2: the lock is released on every exit path of execute(): a cursor that
\* is not inside execute() never holds it, however its last execute() ended,
\* and when no call is in progress the lock is free, so that the next
\* execute() on the connection acquires it.
C2_LockReleasedOnExit ==
    /\ \A c \in Cursors : pc[c] = "idle" => lock # c
    /\ cpc = "idle" => lock # ConnCaller
    /\ InFlight = {} =>
        /\ lock = Free
        /\ \A c \in Cursors : ENABLED ExecuteSend(c, <<"select">>, NoVars)

\* C2 witness: an execute() ended by an exception of _execute_results, and a
\* later execute() of the other cursor has acquired the lock.
C2_Witness ==
    \E c, d \in Cursors :
        /\ c # d
        /\ outcome[c].at = "results"
        /\ outcome[c].exc \in DatabaseErrors \cup {"ProgrammingError", "InternalError"}
        /\ pc[d] = "sent"
        /\ lock = d

\* C3: from the send of a query until its generator has returned, the
\* cursor shows no result: its list is empty and its current result unset,
\* even when results have reached the generator; a non-empty list is the
\* list the generator returned, installed by a successful _execute_results.
C3_NoResultBeforeReturn ==
    \A c \in Cursors :
        /\ pc[c] = "sent" => _results[c] = <<>> /\ _result[c] = None
        /\ _results[c] # <<>> =>
            /\ pc[c] = "idle"
            /\ outcome[c] = [exc |-> "none", at |-> "results", msg |-> <<>>]
            /\ _results[c] = pending[c]

\* C3 witness: rows have reached the generator of a query still in flight.
C3_Witness ==
    /\ pc["c1"] = "sent"
    /\ Len(pending["c1"]) = 2
    /\ pending["c1"][1].status = TUPLES_OK
    /\ pending["c1"][1].ntuples > 0

\* The last result of the list the generator returned to cursor c.
LastReturned(c) == pending[c][Len(pending[c])]

\* Cursor c is out of an execute() that ended in _execute_results.
AfterResults(c) == pc[c] = "idle" /\ outcome[c].at = "results"

\* C4: when the returned list ends with a FATAL_ERROR result, execute()
\* raises the class mapped from that result's SQLSTATE (23505:
\* UniqueViolation, 40001: SerializationFailure, unknown: DatabaseError),
\* and the connection stays open.
C4_FatalErrorClass ==
    \A c \in Cursors :
        (/\ AfterResults(c)
         /\ pending[c] # <<>>
         /\ \E i \in DOMAIN pending[c] : pending[c][i].status \notin OkStatus
         /\ LastReturned(c).status = FATAL_ERROR)
        => /\ LastReturned(c).sqlstate = "23505" => outcome[c].exc = "UniqueViolation"
           /\ LastReturned(c).sqlstate = "40001" => outcome[c].exc = "SerializationFailure"
           /\ LastReturned(c).sqlstate = "XX999" => outcome[c].exc = "DatabaseError"
           /\ outcome[c].exc \in {"UniqueViolation", "SerializationFailure", "DatabaseError"}
           /\ status = OK

\* C4 witness: two server errors in one list; the class raised is that of
\* the last one.
C4_Witness ==
    /\ AfterResults("c1")
    /\ Len(pending["c1"]) = 2
    /\ pending["c1"][1].status = FATAL_ERROR
    /\ pending["c1"][1].sqlstate = "23505"
    /\ pending["c1"][2].status = FATAL_ERROR
    /\ pending["c1"][2].sqlstate = "40001"
    /\ outcome["c1"].exc = "SerializationFailure"
    /\ status = OK

\* The list returned to cursor c holds a COPY result.
ReturnedCopy(c) ==
    \E i \in DOMAIN pending[c] : pending[c][i].status \in {COPY_IN, COPY_OUT, COPY_BOTH}

\* C5 as stated: whenever any result of the returned list has a COPY
\* status, execute() raises ProgrammingError pointing to copy().
C5_Original ==
    \A c \in Cursors :
        AfterResults(c) /\ ReturnedCopy(c)
        => outcome[c].exc = "ProgrammingError" /\ outcome[c].msg = CopyMessage

\* C5 amended: whenever any result of the returned list has a COPY status
\* and the last result is not a FATAL_ERROR, execute() raises
\* ProgrammingError pointing to copy().
C5_CopyRaisesProgrammingError ==
    \A c \in Cursors :
        AfterResults(c) /\ ReturnedCopy(c) /\ LastReturned(c).status # FATAL_ERROR
        => outcome[c].exc = "ProgrammingError" /\ outcome[c].msg = CopyMessage

\* C5 witness: a COPY result that is not the last one, before a result of
\* another unacceptable status.
C5_Witness ==
    /\ AfterResults("c1")
    /\ Len(pending["c1"]) = 2
    /\ pending["c1"][1].status = COPY_OUT
    /\ pending["c1"][2].status = BAD_RESPONSE
    /\ outcome["c1"].exc = "ProgrammingError"

\* C6: the k-th fetchone() on a current result of n rows returns row k-1 of
\* that result when k <= n and None afterwards; the position is the number
\* of rows returned and stays within 0..n; with no row or no current result
\* the first fetchone() returns None.
C6_FetchoneInOrder ==
    \A c \in Cursors :
        LET n == _result[c].ntuples
            k == nfetch[c]
        IN  /\ _pos[c] \in 0..n
            /\ _pos[c] = IF k <= n THEN k ELSE n
            /\ rv[c].op = "fetchone" =>
                IF k <= n
                THEN /\ rv[c].some
                     /\ rv[c].row = k - 1
                     /\ rv[c].id = _result[c].id
                ELSE ~rv[c].some

\* C6 witness: both rows of a result have been fetched, and two more
\* fetchone() calls have returned None.
C6_Witness ==
    /\ outcome["c1"].exc = "none"
    /\ _result["c1"].ntuples = 2
    /\ nfetch["c1"] = 4
    /\ rv["c1"].op = "fetchone"
    /\ ~rv["c1"].some
    /\ _pos["c1"] = 2

\* C7: after an execute() that stored k results, the i-th nextset() returns
\* True for 1 <= i < k, making result i (0-based) current at row 0, so that
\* the next fetchone() returns its first row; from the k-th on it returns
\* None.
C7_NextsetAdvances ==
    \A c \in Cursors :
        LET k == Len(_results[c])
            i == nnext[c]
        IN  /\ rv[c].op = "nextset" =>
                IF 1 <= i /\ i < k
                THEN /\ rv[c].some
                     /\ _result[c] = _results[c][i + 1]
                     /\ _result[c].id = i + 1
                     /\ _pos[c] = 0
                ELSE ~rv[c].some
            /\ (/\ rv[c].op = "fetchone"
                /\ nfetch[c] = 1
                /\ 1 <= i /\ i < k
                /\ _results[c][i + 1].ntuples > 0)
               => rv[c].some /\ rv[c].id = i + 1 /\ rv[c].row = 0

\* C7 witness: of two results, the first nextset() made the second current
\* and the second nextset() returned None.
C7_Witness ==
    /\ Len(_results["c1"]) = 2
    /\ nnext["c1"] = 2
    /\ rv["c1"].op = "nextset"
    /\ ~rv["c1"].some
    /\ _result["c1"] = _results["c1"][2]

\* C8: when execute() raises a server error (a class mapped from the
\* SQLSTATE), the connection is open and its transaction status is INERROR
\* or IDLE; a rollback() that returns leaves the transaction status IDLE.
C8_AfterDatabaseError ==
    [][/\ \A c \in Cursors :
            (pc[c] = "sent" /\ pc'[c] = "idle" /\ outcome'[c].exc \in DatabaseErrors)
            => tstatus' \in {INERROR, IDLE} /\ status' = OK
       /\ (/\ connout' # connout
           /\ connout'.op = "rollback"
           /\ connout'.out \in {"ok", "noop"})
          => tstatus' = IDLE
      ]_vars

\* C8 witness: a server error has failed the transaction, and rollback() is
\* in progress.
C8_Witness ==
    /\ AfterResults("c1")
    /\ outcome["c1"].exc \in DatabaseErrors
    /\ tstatus = INERROR
    /\ cpc = "rollback"
    /\ status = OK

\* C9 as stated: close() leaves the connection BAD, for good; on a closed
\* connection every commit(), rollback() and execute() raises
\* OperationalError.
C9_Original ==
    [][/\ status = BAD => status' = BAD
       /\ (connout' # connout /\ connout'.op = "close") => status' = BAD
       /\ (/\ status = BAD
           /\ connout' # connout
           /\ connout'.op \in {"commit", "rollback"})
          => connout'.out = "OperationalError"
       /\ \A c \in Cursors :
            (status = BAD /\ outcome'[c] # outcome[c])
            => outcome'[c].exc = "OperationalError"
      ]_vars

\* C10: on an open connection, a commit() or rollback() called with the
\* transaction status IDLE does nothing: no message is sent, no state
\* changes; called with another status it sends its command, and when it
\* returns the transaction status is IDLE, commit() of an open transaction
\* having made the row of foo durable and rollback() having discarded it.
C10_CommitRollback ==
    [][/\ (cpc # "idle" /\ cpc' = "idle" /\ connout'.out = "ok")
          => /\ tstatus' = IDLE
             /\ foo' = IF cpc = "commit" /\ srvtx = INTRANS
                       THEN [visible |-> foo.visible, committed |-> foo.visible]
                       ELSE [visible |-> foo.committed, committed |-> foo.committed]
       /\ (/\ cpc = "idle"
           /\ status = OK
           /\ connout' # connout
           /\ connout'.op \in {"commit", "rollback"})
          => IF tstatus = IDLE
             THEN /\ connout'.out = "noop"
                  /\ UNCHANGED <<lock, status, tstatus, srvtx, foo, wire, cpc>>
             ELSE /\ wire' = connout'.op
                  /\ cpc' = connout'.op
      ]_vars

\* C10 witness: commit() has returned, and the row inserted in the
\* transaction is durable.
C10_Witness ==
    /\ connout = [op |-> "commit", out |-> "ok"]
    /\ wire = "commit"
    /\ tstatus = IDLE
    /\ foo = [visible |-> TRUE, committed |-> TRUE]

\* The numbers of the server's placeholders in the query that was sent.
SentNumbers ==
    {k \in DOMAIN Dollar : \E i \in DOMAIN message.query : message.query[i] = Dollar[k]}

\* The bind expected for a parameter value: 42 travels as the text "42" of
\* type numeric, "hi" as the text "hi" of type text.
ExpectedBind(v) ==
    IF v = V42 THEN [data |-> <<52, 50>>, oid |-> 1700]
    ELSE [data |-> <<104, 105>>, oid |-> 25]

\* The parameter value that the placeholder at place i of the query of the
\* last execute() stands for.
ValueAt(i) ==
    IF args.vars.kind = "Sequence"
    THEN args.vars.values[Cardinality({j \in 1..i : args.query[j] = "%s"})]
    ELSE args.vars.values[CHOOSE k \in DOMAIN args.vars.keys :
                            args.vars.keys[k] = NameOf(args.query[i])]

\* C11: when execute() with a non-empty parameter collection has sent its
\* message, the message is an extended query whose text holds exactly the
\* placeholders $1..$N and which carries N binds, N formats and N type
\* oids; the bind numbered k is the dumped value of the parameter that the
\* placeholder rewritten to $k stood for (by position in a sequence, by
\* name in a mapping); and the text is the query's own tokens, with no
\* parameter value in it.
C11_BindsInOrder ==
    (pc["c1"] = "sent" /\ Truthy(args.vars)) =>
        LET N == Cardinality(SentNumbers) IN
        /\ message.kind = "send_query_params"
        /\ SentNumbers = 1..N
        /\ Len(message.params) = N
        /\ Len(message.param_formats) = N
        /\ Len(message.param_types) = N
        /\ Len(message.query) = Len(args.query)
        /\ \A i \in DOMAIN args.query :
            IF args.query[i] \in Placeholders
            THEN \E k \in 1..N :
                    /\ message.query[i] = Dollar[k]
                    /\ message.params[k] = ExpectedBind(ValueAt(i)).data
                    /\ message.param_types[k] = ExpectedBind(ValueAt(i)).oid
                    /\ message.param_formats[k] = TEXT
            ELSE message.query[i] \in {"select", "%"}

\* C11 witness: a mapping inserted as a, b for a query naming b first: the
\* binds travel as b's value, then a's.
C11_Witness ==
    /\ pc["c1"] = "sent"
    /\ args.query = <<"select", "%(b)s", "%(a)s">>
    /\ args.vars = MappingOf(<<"a", "b">>, <<V42, VHi>>)
    /\ message.query = <<"select", "$1", "$2">>
    /\ message.params = <<<<104, 105>>, <<52, 50>>>>
    /\ message.param_types = <<25, 1700>>

\* C12: the query is rewritten by the preparer exactly when parameters were
\* passed, an empty sequence or mapping included: "%%" is then sent as "%"
\* and every placeholder as a $k; with parameters None the query is sent
\* as it was given, its "%%" and its placeholders untouched.
C12_PreparedIffParams ==
    pc["c1"] = "sent" =>
        IF args.vars.kind = "None"
        THEN message.query = args.query
        ELSE /\ Len(message.query) = Len(args.query)
             /\ \A i \in DOMAIN args.query :
                    CASE args.query[i] = "%%" -> message.query[i] = "%"
                      [] args.query[i] \in Placeholders ->
                            \E k \in DOMAIN Dollar : message.query[i] = Dollar[k]
                      [] OTHER -> message.query[i] = args.query[i]

\* C12 witness: an empty list of parameters, and a query with "%%".
C12_Witness ==
    /\ pc["c1"] = "sent"
    /\ args.vars = SequenceOf(<<>>)
    /\ args.query = <<"select", "%%", "%%">>
    /\ message.query = <<"select", "%", "%">>

\* C18: the message sent by execute() is an extended query exactly when the
\* parameter collection is not empty: it then carries one format and one
\* oid per dumped parameter, and asks for results in binary format exactly
\* when the cursor was created with binary = True; with parameters None or
\* empty it is a simple query, without parameters.
C18_ExtendedIffParams ==
    pc["c1"] = "sent" =>
        IF args.vars.kind # "None" /\ Len(args.vars.values) > 0
        THEN /\ message.kind = "send_query_params"
             /\ message.result_format = (IF binary["c1"] THEN BINARY ELSE TEXT)
             /\ Len(message.param_formats) = Len(message.params)
             /\ Len(message.param_types) = Len(message.params)
        ELSE /\ message.kind = "send_query"
             /\ message.params = <<>>

\* C18 witness: a binary cursor has sent a query with two parameters.
C18_Witness ==
    /\ pc["c1"] = "sent"
    /\ binary["c1"]
    /\ message.kind = "send_query_params"
    /\ Len(message.params) = 2
    /\ message.result_format = BINARY

\* An int has been dumped in binary format (or the dumper has raised).
BinaryIntDumped ==
    obj.type = "int" /\ dumped.exc # "unset" /\ dumped.format = BINARY

\* C13 as stated: dump_binary_int returns int2 and 2 bytes within
\* -32768..32767, int4 and 4 bytes within -2^31..2^31-1 outside that, and
\* int8 and 8 bytes for every other int; dump_int returns the numeric oid.
C13_Original ==
    /\ BinaryIntDumped =>
        /\ dumped.exc = "none"
        /\ IF Fits(obj.int, 2) THEN dumped.oid = 21 /\ Len(dumped.data) = 2
           ELSE IF Fits(obj.int, 4) THEN dumped.oid = 23 /\ Len(dumped.data) = 4
           ELSE dumped.oid = 20 /\ Len(dumped.data) = 8
    /\ (obj.type = "int" /\ dumped.exc # "unset" /\ dumped.format = TEXT)
        => dumped.exc = "none" /\ dumped.oid = 1700

\* C13 amended: the same, the int8 case being the ints within
\* -2^63..2^63-1; -32768 gives int2 (80 00), -32769 int4 (ff ff 7f ff) and
\* 2^31 int8 (00 00 00 00 80 00 00 00), big-endian.
C13_NarrowestFittingType ==
    /\ (BinaryIntDumped /\ Fits(obj.int, 8)) =>
        /\ dumped.exc = "none"
        /\ IF Fits(obj.int, 2) THEN dumped.oid = 21 /\ Len(dumped.data) = 2
           ELSE IF Fits(obj.int, 4) THEN dumped.oid = 23 /\ Len(dumped.data) = 4
           ELSE dumped.oid = 20 /\ Len(dumped.data) = 8
    /\ (BinaryIntDumped /\ obj.int = [neg |-> TRUE, mag |-> <<32768>>])
        => dumped.data = <<128, 0>>
    /\ (BinaryIntDumped /\ obj.int = [neg |-> TRUE, mag |-> <<32769>>])
        => dumped.data = <<255, 255, 127, 255>>
    /\ (BinaryIntDumped /\ obj.int = [neg |-> FALSE, mag |-> <<32768, 0>>])
        => dumped.data = <<0, 0, 0, 0, 128, 0, 0, 0>>
    /\ (obj.type = "int" /\ dumped.exc # "unset" /\ dumped.format = TEXT)
        => dumped.exc = "none" /\ dumped.oid = 1700

\* C13 witness: -32769, the first int below the int2 range, dumped as int4.
C13_Witness ==
    /\ obj = PyInt([neg |-> TRUE, mag |-> <<32769>>])
    /\ dumped = [exc |-> "none", data |-> <<255, 255, 127, 255>>, oid |-> 23,
                 format |-> BINARY]

\* C14: whenever a dumper has accepted an int or a bool, in text or binary
\* format, the loader registered for the returned oid at that format
\* returns a value equal to the one dumped: an int from the binary int
\* loaders, a Decimal from the numeric loader for a text int, a bool from
\* the bool loaders.
C14_RoundTrip ==
    loaded.exc # "unset" =>
        /\ loaded.exc = "none"
        /\ PyEq(loaded.value, obj)
        /\ loaded.value.type =
            (IF obj.type = "bool" THEN "bool"
             ELSE IF dumped.format = BINARY THEN "int"
             ELSE "Decimal")

\* C14 witness: -32768 has gone through the int2 dumper and loader.
C14_Witness ==
    /\ obj = PyInt([neg |-> TRUE, mag |-> <<32768>>])
    /\ dumped.format = BINARY
    /\ dumped.oid = 21
    /\ loaded = [exc |-> "none", value |-> obj]

\* C15: a tuple of NULLs and texts, dumped by the text tuple dumper and
\* loaded back by the text record loader, comes back as the same tuple, with
\* the same number of fields and NULL and the empty string told apart.
C15_Original ==
    (obj.type = "tuple" /\ dumped.format = TEXT /\ loaded # NotLoaded)
        => loaded = Loaded(obj)

\* The characters that make a field quoted: double quote, comma, backslash
\* and the whitespace characters.
QuotingChars == {34, 44, 92, 32, 9, 10, 11, 12, 13}

\* The text s with every double quote doubled: the character s[i] stands
\* after the i - 1 characters before it and one more for each double quote
\* among them, and a double quote is followed by another.
DoubledQuotes(s) ==
    LET before(i) == Cardinality({j \in 1..(i - 1) : s[j] = 34})
        places(i) == {i + before(i)} \cup (IF s[i] = 34 THEN {i + before(i) + 1} ELSE {})
    IN  [k \in 1..(Len(s) + before(Len(s) + 1)) |->
            s[CHOOSE i \in 1..Len(s) : k \in places(i)]]

\* The slot of a field: nothing for NULL, the text as it is, or the text in
\* double quotes with its double quotes doubled.
Slot(field) ==
    IF field.type = "NoneType" THEN <<>>
    ELSE IF field.text = <<>> \/ \E i \in DOMAIN field.text : field.text[i] \in QuotingChars
    THEN <<34>> \o DoubledQuotes(field.text) \o <<34>>
    ELSE field.text

RECURSIVE SlotsUpTo(_, _)
\* An opening parenthesis and the slots of the first n fields, a comma
\* between each two.
SlotsUpTo(items, n) ==
    IF n = 0 THEN <<40>>
    ELSE SlotsUpTo(items, n - 1) \o (IF n > 1 THEN <<44>> ELSE <<>>) \o Slot(items[n])

\* C19: the text tuple dumper returns "()" for the empty tuple; otherwise the
\* slots of the fields in order, separated by commas, in one pair of
\* parentheses: a NULL is an empty slot, a text is emitted as it is unless
\* it is empty or holds a double quote, a comma, a backslash or a
\* whitespace, and then in double quotes with every double quote doubled.
C19_TextLayout ==
    (obj.type = "tuple" /\ dumped.exc # "unset" /\ dumped.format = TEXT) =>
        /\ dumped.exc = "none"
        /\ obj.items = <<>> => dumped.data = <<40, 41>>
        /\ dumped.data = SlotsUpTo(obj.items, Len(obj.items)) \o <<41>>

\* C19 witness: the tuple of a double quote and a NULL has been dumped as
\* ("""",).
C19_Witness ==
    /\ obj = PyTuple(<<PyStr(<<34>>), PyNone>>)
    /\ dumped.format = TEXT
    /\ dumped.data = <<40, 34, 34, 34, 34, 44, 41>>

\* Four bytes, big-endian, of a length: -1, or a number below 65536.
FourBytes(n) ==
    IF n = -1 THEN <<255, 255, 255, 255>> ELSE <<0, 0, n \div 256, n % 256>>

\* The payload of a field in binary format, and the oid and the length sent
\* before it: a text is its bytes, a bool is one byte.
Payload(field) ==
    CASE field.type = "str" -> field.text
      [] field.type = "bool" -> IF field.bool THEN <<1>> ELSE <<0>>
      [] OTHER -> <<>>

PayloadOid(field) == IF field.type = "bool" THEN 16 ELSE 25

PayloadLength(field) == IF field.type = "NoneType" THEN -1 ELSE Len(Payload(field))

RECURSIVE PayloadStart(_, _)
\* Where the payload of the k-th field starts, counted from 0: after the
\* field count, the payloads of the fields before it, and k headers.
PayloadStart(items, k) ==
    IF k = 1 THEN 4 + 8
    ELSE PayloadStart(items, k - 1) + Len(Payload(items[k - 1])) + 8

\* C20: the binary tuple dumper emits a 4-byte field count and, per field
\* in order, a 4-byte oid, a 4-byte length and exactly that many payload
\* bytes, with length -1 and no payload for NULL; the walk of the binary
\* record loader over these bytes yields one (oid, offset, length) per
\* field, the offset at the start of the field's payload; and the tuple
\* loaded has as many fields, with NULLs at the same places.
C20_BinaryLayout ==
    (obj.type = "tuple" /\ dumped.exc # "unset" /\ dumped.format = BINARY) =>
        LET items == obj.items
            n == Len(items)
            data == dumped.data
            start(k) == PayloadStart(items, k)
            walk == _walk_record(data)
        IN  /\ dumped.exc = "none"
            /\ SubSeq(data, 1, 4) = FourBytes(n)
            /\ Len(data) = IF n = 0 THEN 4
                           ELSE start(n) + Len(Payload(items[n]))
            /\ \A k \in 1..n :
                /\ SubSeq(data, start(k) - 7, start(k) - 4) = FourBytes(PayloadOid(items[k]))
                /\ SubSeq(data, start(k) - 3, start(k)) = FourBytes(PayloadLength(items[k]))
                /\ SubSeq(data, start(k) + 1, start(k) + Len(Payload(items[k])))
                        = Payload(items[k])
            /\ walk.exc = "none"
            /\ Len(walk.triples) = n
            /\ \A k \in 1..n :
                walk.triples[k] = [oid |-> PayloadOid(items[k]), offset |-> start(k),
                                   length |-> PayloadLength(items[k])]
            /\ loaded # NotLoaded =>
                /\ loaded.exc = "none"
                /\ Len(loaded.value.items) = n
                /\ \A k \in 1..n :
                    (loaded.value.items[k] = PyNone) <=> (items[k] = PyNone)

\* C20 witness: the tuple of a NULL and a one-letter text has been dumped
\* and loaded back.
C20_Witness ==
    /\ obj = PyTuple(<<PyNone, PyStr(<<97>>)>>)
    /\ dumped.data = <<0, 0, 0, 2,
                       0, 0, 0, 25, 255, 255, 255, 255,
                       0, 0, 0, 25, 0, 0, 0, 1, 97>>
    /\ loaded = Loaded(obj)

\* The maps of dumpers, loaders and arrays agree, before and after a step,
\* at every key but the given ones of the given scope.
OtherKeysUnchanged(scope, dkeys, lkeys, akeys) ==
    \A s \in Scopes :
        /\ \A k \in DumperKeys :
            (s # scope \/ k \notin dkeys) => dumpers'[s][k] = dumpers[s][k]
        /\ \A k \in LoaderKeys :
            (s # scope \/ k \notin lkeys) => loaders'[s][k] = loaders[s][k]
        /\ \A k \in ArrayKeys :
            (s # scope \/ k \notin akeys) => arrays'[s][k] = arrays[s][k]

\* C16: after register(info, context, cls, factory) with cls given, the
\* scope of the context holds a text and a binary loader at info.oid that
\* build through the factory, a dumper at (cls, text) and one at
\* (cls, binary), both with info.oid, and an array registration at
\* info.array_oid when it is not zero; the other entries are unchanged.
C16_Original ==
    [][\A info \in Infos, context \in Contexts, cls \in Classes,
          factory \in Factories \cup {"None"} :
        Register(info, context, cls, factory) =>
            LET scope == Where(context)
                fac == IF factory = "None" THEN namedtuple(info) ELSE factory
            IN  /\ \A format \in Formats :
                    /\ loaders'[scope][<<info.oid, format>>].base # "none"
                    /\ loaders'[scope][<<info.oid, format>>].factory = fac
                    /\ dumpers'[scope][<<cls, format>>].base # "none"
                    /\ dumpers'[scope][<<cls, format>>].oid = info.oid
                /\ info.array_oid # 0 =>
                    arrays'[scope][info.array_oid].base_oid = info.oid
                /\ OtherKeysUnchanged(scope,
                        {<<cls, format>> : format \in Formats},
                        {<<info.oid, format>> : format \in Formats},
                        {info.array_oid})]_vars

\* The list the generator returned to cursor c is not empty and holds only
\* results of status TUPLES_OK, COMMAND_OK or EMPTY_QUERY.
AllResultsOk(c) ==
    /\ pending[c] # <<>>
    /\ \A i \in DOMAIN pending[c] :
        pending[c][i].status \in {TUPLES_OK, COMMAND_OK, EMPTY_QUERY}

\* C17: when every result returned for an execute() is TUPLES_OK,
\* COMMAND_OK or EMPTY_QUERY, the cursor stores the whole list, in the order
\* the server produced it, makes the first result current, at row 0 and
\* result index 0, and raises nothing; and at all times the current result
\* is unset exactly when the stored list is empty, and else is one of the
\* stored results.
C17_StoresOkResults ==
    /\ [](\A c \in Cursors :
            /\ (_result[c] = None) <=> (_results[c] = <<>>)
            /\ _result[c] # None =>
                \E i \in DOMAIN _results[c] : _results[c][i] = _result[c])
    /\ [][\A c \in Cursors :
            (ExecuteReturn(c) /\ AllResultsOk(c)) =>
                /\ _results'[c] = pending[c]
                /\ \A i \in DOMAIN _results'[c] : _results'[c][i].id = i
                /\ _result'[c] = pending[c][1]
                /\ _pos'[c] = 0
                /\ _iresult'[c] = 0
                /\ outcome'[c] = [exc |-> "none", at |-> "results", msg |-> <<>>]]_vars

\* C17 witness: an execute() has returned rows and then a command's result,
\* and the rows' result is current, before any fetchone() or nextset().
C17_Witness ==
    /\ pc["c1"] = "idle"
    /\ outcome["c1"] = [exc |-> "none", at |-> "results", msg |-> <<>>]
    /\ Len(_results["c1"]) = 2
    /\ _results["c1"][1].status = TUPLES_OK
    /\ _results["c1"][2].status = COMMAND_OK
    /\ _result["c1"] = _results["c1"][1]
    /\ _pos["c1"] = 0
    /\ _iresult["c1"] = 0
    /\ rv["c1"] = NoRv

\* The statuses of the list returned to cursor c that are not acceptable.
Unacceptable(c) ==
    {pending[c][i].status : i \in DOMAIN pending[c]}
        \ {"TUPLES_OK", "COMMAND_OK", "EMPTY_QUERY"}

\* The place of an unacceptable status's name in alphabetical order.
NameRank(name) ==
    CASE name = "BAD_RESPONSE" -> 1
      [] name = "COPY_BOTH" -> 2
      [] name = "COPY_IN" -> 3
      [] name = "COPY_OUT" -> 4
      [] name = "FATAL_ERROR" -> 5
      [] name = "NONFATAL_ERROR" -> 6

\* C24: what _execute_results does is fixed by whether the list is empty,
\* the set of its statuses and its last result, in this precedence: an
\* empty list raises InternalError; acceptable statuses only, nothing is
\* raised; else a last result of status FATAL_ERROR raises the class mapped
\* from its SQLSTATE, even beside a COPY status; else a COPY status raises
\* ProgrammingError; else InternalError names each unacceptable status once,
\* in ascending order.  A FATAL_ERROR that is not last never gives a
\* SQLSTATE-mapped error.
C24_Precedence ==
    \A c \in Cursors :
        AfterResults(c) =>
            LET out == outcome[c]
                n == Len(pending[c])
            IN  /\ out.exc \in {"UniqueViolation", "SerializationFailure", "DatabaseError"}
                    => (n > 0 /\ pending[c][n].status = "FATAL_ERROR")
                /\ CASE n = 0 ->
                            /\ out.exc = "InternalError"
                            /\ out.msg = <<"got no result from the query">>
                     [] n > 0 /\ Unacceptable(c) = {} -> out.exc = "none"
                     [] n > 0 /\ Unacceptable(c) # {}
                              /\ pending[c][n].status = "FATAL_ERROR" ->
                            out.exc = (CASE pending[c][n].sqlstate = "23505" -> "UniqueViolation"
                                         [] pending[c][n].sqlstate = "40001" -> "SerializationFailure"
                                         [] OTHER -> "DatabaseError")
                     [] n > 0 /\ pending[c][n].status # "FATAL_ERROR"
                              /\ Unacceptable(c) \cap {"COPY_IN", "COPY_OUT", "COPY_BOTH"} # {} ->
                            out.exc = "ProgrammingError"
                     [] OTHER ->
                            /\ out.exc = "InternalError"
                            /\ {out.msg[i] : i \in DOMAIN out.msg} = Unacceptable(c)
                            /\ \A i, j \in DOMAIN out.msg :
                                i < j => NameRank(out.msg[i]) < NameRank(out.msg[j])

\* C24 witness: a FATAL_ERROR that is not the last result, before a
\* BAD_RESPONSE: InternalError names both, in ascending order.
C24_Witness ==
    /\ AfterResults("c1")
    /\ Len(pending["c1"]) = 2
    /\ pending["c1"][1].status = "FATAL_ERROR"
    /\ pending["c1"][2].status = "BAD_RESPONSE"
    /\ outcome["c1"].exc = "InternalError"
    /\ outcome["c1"].msg = <<"BAD_RESPONSE", "FATAL_ERROR">>

\* The last call on cursor c was a nextset() that returned None.
NextsetReturnedNone(c) == rv[c].op = "nextset" /\ ~rv[c].some

\* C23: a nextset() that returns None leaves the list of results, the
\* current result and the row position as they were; and the fetchone()
\* that follows one or several such calls returns the row at that position
\* of that result and moves past it, or None when no row is left.
C23_NextsetNoneKeepsPosition ==
    /\ [][\A c \in Cursors :
            (nextset(c) /\ ~rv'[c].some) =>
                /\ _results'[c] = _results[c]
                /\ _result'[c] = _result[c]
                /\ _pos'[c] = _pos[c]]_vars
    /\ [][\A c \in Cursors :
            (fetchone(c) /\ NextsetReturnedNone(c)) =>
                IF _result[c].status # "None" /\ _pos[c] < _result[c].ntuples
                THEN /\ rv'[c] = [op |-> "fetchone", some |-> TRUE,
                                  id |-> _result[c].id, row |-> _pos[c]]
                     /\ _pos'[c] = _pos[c] + 1
                     /\ _result'[c] = _result[c]
                ELSE /\ rv'[c].op = "fetchone"
                     /\ ~rv'[c].some
                     /\ _pos'[c] = _pos[c]
                     /\ _result'[c] = _result[c]]_vars

\* C23 witness: on a single result of two rows, nextset() has returned None
\* twice and fetchone() has been called twice; the last call, a fetchone(),
\* has returned the second row.
C23_Witness ==
    /\ Len(_results["c1"]) = 1
    /\ _result["c1"].ntuples = 2
    /\ nnext["c1"] = 2
    /\ _iresult["c1"] = 2
    /\ nfetch["c1"] = 2
    /\ rv["c1"] = [op |-> "fetchone", some |-> TRUE, id |-> _result["c1"].id, row |-> 1]
    /\ _pos["c1"] = 2

\* The last execute() on cursor c has raised.
ExecuteRaised(c) ==
    pc[c] = "idle" /\ outcome[c].exc \notin {"unset", "running", "none"}

\* C22: execute() resets the cursor before it sends anything, and installs
\* results only when every status is acceptable.  While the query is in
\* flight and after an execute() that raised (in the send, in the wait or
\* in _execute_results) the cursor has an empty list and no current
\* result; the raising step leaves row position and result index at 0; and
\* fetchone() and nextset() return None from then on.
C22_FailedExecuteLeavesNothing ==
    /\ [](\A c \in Cursors :
            /\ pc[c] = "sent" =>
                _results[c] = <<>> /\ _result[c].status = "None"
                    /\ _pos[c] = 0 /\ _iresult[c] = 0
            /\ ExecuteRaised(c) =>
                /\ _results[c] = <<>>
                /\ _result[c].status = "None"
                /\ _pos[c] = 0
                /\ rv[c].op \in {"fetchone", "nextset"} => ~rv[c].some
            /\ _results[c] # <<>> =>
                /\ outcome[c].exc = "none"
                /\ _results[c] = pending[c]
                /\ \A i \in DOMAIN _results[c] :
                    _results[c][i].status \in {"TUPLES_OK", "COMMAND_OK", "EMPTY_QUERY"})
    /\ [][\A c \in Cursors :
            (outcome'[c] # outcome[c] /\ ExecuteRaised(c)') =>
                /\ outcome'[c].at \in {"send", "wait", "results"}
                /\ _results'[c] = <<>>
                /\ _result'[c].status = "None"
                /\ _pos'[c] = 0
                /\ _iresult'[c] = 0]_vars

\* C22 witness: rows and then a server error were returned; execute() has
\* raised, nothing is installed, and a nextset() and then a fetchone() have
\* returned None.
C22_Witness ==
    /\ ExecuteRaised("c1")
    /\ outcome["c1"].at = "results"
    /\ Len(pending["c1"]) = 2
    /\ pending["c1"][1].status = "TUPLES_OK"
    /\ pending["c1"][1].ntuples = 2
    /\ pending["c1"][2].status = "FATAL_ERROR"
    /\ _results["c1"] = <<>>
    /\ nnext["c1"] = 1
    /\ nfetch["c1"] = 1
    /\ rv["c1"] = [op |-> "fetchone", some |-> FALSE, id |-> 0, row |-> 0]

\* The bytes of a field of a record, as the format carries them.
SentField(field, format) ==
    IF format = "BINARY" THEN Payload(field) ELSE field.text

\* What the loader of type oid gives for a field sent in the format.
DecodedAs(field, format, oid) ==
    Transformer_load(SentField(field, format), oid, format)

=========================================================================
